---------------------------- MODULE Spec2Model ----------------------------
(***************************************************************************)
(* Task-manager web client: the create-project form validator, the         *)
(* deadline urgency classifiers, the dashboard filter pipeline and the     *)
(* local archive store, as state machines over the pages' React state.     *)
(*                                                                         *)
(* Strings that the code trims, lower-cases, splits or parses are modelled *)
(* as sequences of one-character strings; instants are milliseconds        *)
(* relative to a reference instant (TLC integers are 32 bit wide).         *)
(***************************************************************************)
EXTENDS Integers, Sequences, FiniteSets, TLC

VARIABLES
    \* ---- CreateProjectPage (src/src/App.tsx:383) ----
    deadline,        \* useState deadline: the project's date-input value
    tasksInput,      \* useState tasksInput: sequence of task drafts
    creating,        \* useState creating
    taskError,       \* useState taskError
    successMessage,  \* useState successMessage
    createCalls,     \* api.createProject requests in flight (payloads)
    submits,         \* number of onCreate invocations so far
    navigatedTo,     \* project id passed to navigate(), 0 while on the form
    \* ---- deadline classifiers (Dashboard.tsx:45, App.tsx:369, CalendarMe.tsx:545) ----
    clsDeadline,     \* the timestamp argument
    clsNow,          \* Date.now()
    deadlineInfo,    \* result of computeDeadlineInfo
    badge,           \* result of computeBadge
    remaining,       \* result of computeRemaining
    \* ---- DashboardPage (src/src/pages/Dashboard.tsx:220) ----
    admin,               \* useState admin: projects the user administers
    member,              \* useState member: projects the user is a member of
    tagFilter,           \* useState tagFilter ('' = all tags)
    projectStatusFilter, \* useState projectStatusFilter
    taskStatusFilter,    \* useState taskStatusFilter
    archivedProjectIds,  \* useState archivedProjectIds
    filterNow,           \* Date.now() read by applyProjectFilters
    \* ---- archive store (src/src/lib/archive.ts) ----
    archiveStorage,      \* localStorage entry 'dashboard-archived-projects'
    loadResult,          \* what the latest loadArchivedProjectIds() returned
    \* ---- AuthProvider (src/src/lib/auth.tsx:15) ----
    token,               \* localStorage entry 'token' is present
    user,                \* useState user: the signed-in user's id, 0 for null
    authLoading,         \* useState loading of AuthProvider
    mounted,             \* the start-up effect of AuthProvider has run
    authCalls,           \* the requests to /auth/me, /auth/login and /auth/register
    location,            \* the router's location and what navigated there
    \* ---- DashboardPage: requests and their gates (Dashboard.tsx:231) ----
    lists,                 \* useState lists: the colleague lists
    loading,               \* useState loading
    error,                 \* useState error
    notice,                \* useState notice
    deleting,              \* useState deleting: a project id, 0 for null
    confirming,            \* useState confirming: a project id, 0 for null
    taskListSelections,    \* useState taskListSelections: task id -> list id, 0 for ''
    taskUserSelections,    \* useState taskUserSelections: task id -> colleague id, 0 for ''
    assigningFromList,     \* useState assigningFromList: the task ids mapped to true
    lastListByProject,     \* useState lastListByProject: project id -> list id, 0 for none
    taskUpdating,          \* useState taskUpdating: the task ids mapped to true
    projectStatusUpdating, \* useState projectStatusUpdating: the project ids mapped to true
    calls,                 \* the handler invocations so far, each with its position
    server,                \* what the backend holds: the answer to the next fetch
    \* ---- ParticipantsPage (src/src/pages/Participants.tsx:19) ----
    colleagues,             \* useState colleagues
    participantProjects,    \* useState projects: the projects the user administers
    projectTasks,           \* useState projectTasks: project id -> tasks, for the loaded ones
    participantsLoading,    \* useState loading
    participantsError,      \* useState error
    participantsNotice,     \* useState notice
    projectSelections,      \* useState projectSelections: colleague id -> project id, 0 for ''
    assigningProject,       \* useState assigningProject: the colleague ids mapped to true
    taskProjectSelections,  \* useState taskProjectSelections: colleague id -> project id
    taskSelections,         \* useState taskSelections: colleague id -> task id, 0 for ''
    assigningTask,          \* useState assigningTask: the colleague ids mapped to true
    participantCalls,       \* the handler invocations of the page, each with its position
    directory,              \* the colleagues the backend holds
    \* ---- ParticipantsPage: colleague lists (src/src/pages/Participants.tsx:500) ----
    listSelections,         \* useState listSelections: colleague id -> list id, 0 for ''
    colleagueLists,         \* colleague.lists of useState colleagues: the list ids
    pageLists,              \* useState lists: list id -> the colleague ids of its members
    listCalls,              \* the handleAddToList invocations, each with its position
    listMembers,            \* the backend's lists: list id -> the colleague ids
    \* ---- DashboardPage: the re-fetches of the handlers (Dashboard.tsx:322) ----
    refetches,              \* the loadDashboardData calls of the handlers, in the
                            \* order of their issue, each with its answer
    \* ---- HistoryPage (src/src/pages/History.tsx:17) ----
    serverArchived,         \* useState serverArchived: the project ids, in order
    projectIndex,           \* useState projectIndex: the ids of the indexed projects
    localArchivedIds,       \* useState localArchivedIds
    restoring,              \* useState restoring: the project ids mapped to true
    historyDeleting,        \* useState deleting: the project ids mapped to true
    historyLoading,         \* useState loading
    historyError,           \* useState error
    historyNotice,          \* useState notice
    historyCalls,           \* the handler invocations of the page, each with its position
    historyBackend,         \* the projects the backend holds: archived and open ones
    \* ---- CalendarMePage (src/src/pages/CalendarMe.tsx:570) ----
    allTasks,               \* useState allTasks: the answer of api.calendarMe
    allProjects,            \* useState allProjects: the projects of api.projectsMine
    calendarArchivedIds,    \* useState archivedIds of CalendarMePage
    rangeFilter,            \* useState rangeFilter: from and to, NaN when absent
    calendarLoading,        \* useState loading: a fetchData call is pending
    calendarError,          \* useState error
    storageEvents           \* the storage events on their way to the page: their keys

createVars == <<deadline, tasksInput, creating, taskError, successMessage,
                createCalls, submits, navigatedTo>>

clsVars == <<clsDeadline, clsNow, deadlineInfo, badge, remaining>>

dashVars == <<admin, member, tagFilter, projectStatusFilter, taskStatusFilter,
              archivedProjectIds, filterNow>>

storeVars == <<archiveStorage, loadResult>>

authVars == <<token, user, authLoading, mounted, authCalls, location>>

pageVars == <<loading, error, notice>>

deleteVars == <<deleting, confirming>>

assignVars == <<lists, taskListSelections, taskUserSelections, assigningFromList,
                lastListByProject>>

updateVars == <<taskUpdating, projectStatusUpdating>>

boardVars == <<pageVars, deleteVars, assignVars, updateVars, calls, server>>

partVars == <<colleagues, participantProjects, projectTasks, participantsLoading,
              participantsError, participantsNotice, projectSelections,
              assigningProject, taskProjectSelections, taskSelections,
              assigningTask, participantCalls, directory>>

listVars == <<listSelections, colleagueLists, pageLists, listCalls, listMembers>>

fetchVars == <<refetches>>

histVars == <<serverArchived, projectIndex, localArchivedIds, restoring,
              historyDeleting, historyLoading, historyError, historyNotice,
              historyCalls, historyBackend>>

calVars == <<allTasks, allProjects, calendarArchivedIds, rangeFilter, calendarLoading,
             calendarError, storageEvents>>

vars == <<createVars, clsVars, dashVars, storeVars, authVars, boardVars, partVars,
          listVars, fetchVars, histVars, calVars>>

-----------------------------------------------------------------------------
(* Bounds of the model *)

MaxTasks == 2
MaxSubmits == 2
MaxHours == 50
MaxProjects == 2
MaxIds == 2
MaxCalls == 2
MaxDeletes == 3

-----------------------------------------------------------------------------
(* Strings and numbers as JavaScript treats them *)

\* 1000 * 60 * 60 * 24
MsPerDay == 86400000

\* Date.prototype.getTime() of an invalid date; every comparison with it is false
NaN == -2000000000

IsNaN(x) == x = NaN

\* a > b on numbers, false when either side is NaN
NumGt(a, b) == ~IsNaN(a) /\ ~IsNaN(b) /\ a > b

\* a < b on numbers, false when either side is NaN
NumLt(a, b) == ~IsNaN(a) /\ ~IsNaN(b) /\ a < b

IsSpace(c) == c = " "

RECURSIVE TrimStart(_)
TrimStart(s) ==
    IF s = <<>> THEN <<>>
    ELSE IF IsSpace(Head(s)) THEN TrimStart(Tail(s)) ELSE s

RECURSIVE TrimEnd(_)
TrimEnd(s) ==
    IF s = <<>> THEN <<>>
    ELSE IF IsSpace(s[Len(s)]) THEN TrimEnd(SubSeq(s, 1, Len(s) - 1)) ELSE s

\* String.prototype.trim
Trim(s) == TrimEnd(TrimStart(s))

\* Array.from(new Set(xs)): first occurrences, in order
RECURSIVE Dedupe(_)
Dedupe(xs) ==
    IF xs = <<>> THEN <<>>
    ELSE LET init == Dedupe(SubSeq(xs, 1, Len(xs) - 1))
             last == xs[Len(xs)]
         IN  IF \E i \in DOMAIN init : init[i] = last THEN init
             ELSE Append(init, last)

\* concatenation of a sequence of sequences
RECURSIVE Concat(_)
Concat(seqs) == IF seqs = <<>> THEN <<>> ELSE Head(seqs) \o Concat(Tail(seqs))

\* xs.filter(Boolean) on strings: drops the empty ones
RECURSIVE FilterNonEmpty(_)
FilterNonEmpty(xs) ==
    IF xs = <<>> THEN <<>>
    ELSE IF Head(xs) = <<>> THEN FilterNonEmpty(Tail(xs))
         ELSE <<Head(xs)>> \o FilterNonEmpty(Tail(xs))


-----------------------------------------------------------------------------
(* Localisation: t(key, vars) keeps the message key and the interpolated     *)
(* variable; every template of the dictionary that takes {{index}} or        *)
(* {{count}} renders it.                                                     *)

\* t(key, { index }) / t(key, { count }) / t(key)
Msg(key, n) == [key |-> key, n |-> n]

\* null message state
NoMsg == Msg("", 0)

-----------------------------------------------------------------------------
(* CreateProjectPage *)

\* values an <input type="date"> (or its text fallback) can hold
DateInputs == {"", "not-a-date", "2025-06-01", "2025-06-02"}

\* new Date(`${value}T00:00:00`).getTime(), relative to 2025-05-31T00:00:00
DateInputTime(value) ==
    CASE value = "2025-06-01" -> 1 * MsPerDay
      [] value = "2025-06-02" -> 2 * MsPerDay
      [] OTHER -> NaN

Titles == { <<>>, <<" ">>, <<" ", "F", "i", "x", " ">> }

TagLists == { <<>>,
              <<<<"D", "e", "s", "i", "g", "n">>>>,
              <<<<"D", "e", "s", "i", "g", "n">>, <<"q", "a">>>> }

\* createEmptyTask()
createEmptyTask == [title |-> <<>>, tags |-> <<>>, deadline |-> ""]

TaskDrafts == [title : Titles, tags : TagLists, deadline : DateInputs]

TaskDraftLists == UNION { [1..n -> TaskDrafts] : n \in 0..MaxTasks }

\* task.tags.map((tag) => tag.trim()).filter(Boolean), deduplicated
PrepareTags(tags) ==
    Dedupe(FilterNonEmpty([i \in DOMAIN tags |-> Trim(tags[i])]))

\* taskDeadline.getTime() > projectDeadline.getTime()
TaskAfterProject_Strict(taskTime, projectTime) ==
    ~IsNaN(taskTime) /\ ~IsNaN(projectTime) /\ taskTime >= projectTime

TaskAfterProject(taskTime, projectTime) == NumGt(taskTime, projectTime)

\* the body of the map callback up to its first throw: the thrown message,
\* or NoMsg when the task passes
TaskProblem_NoTagCheck(task, indexLabel, projectTime) ==
    IF Trim(task.title) = <<>>
      THEN Msg("projects.errors.fillTask", indexLabel)
    ELSE IF task.deadline = ""
      THEN Msg("projects.errors.setTaskDeadline", indexLabel)
    ELSE IF IsNaN(DateInputTime(task.deadline))
      THEN Msg("projects.errors.invalidTaskDeadline", indexLabel)
    ELSE IF TaskAfterProject(DateInputTime(task.deadline), projectTime)
      THEN Msg("projects.errors.taskAfterProject", indexLabel)
    ELSE NoMsg

TaskProblem(task, indexLabel, projectTime) ==
    IF Trim(task.title) = <<>> \/ Len(PrepareTags(task.tags)) = 0
      THEN Msg("projects.errors.fillTask", indexLabel)
    ELSE IF task.deadline = ""
      THEN Msg("projects.errors.setTaskDeadline", indexLabel)
    ELSE IF IsNaN(DateInputTime(task.deadline))
      THEN Msg("projects.errors.invalidTaskDeadline", indexLabel)
    ELSE IF TaskAfterProject(DateInputTime(task.deadline), projectTime)
      THEN Msg("projects.errors.taskAfterProject", indexLabel)
    ELSE NoMsg

\* the value the map callback returns for a task that passes
PreparedTask(task) ==
    [title    |-> Trim(task.title),
     tags     |-> PrepareTags(task.tags),
     deadline |-> DateInputTime(task.deadline)]

\* tasksInput.map(...) inside try/catch: Array.prototype.map visits the tasks
\* in index order and the first throw ends it
RECURSIVE MapTasks(_, _, _)
MapTasks(tasks, idx, projectTime) ==
    IF idx > Len(tasks) THEN [error |-> NoMsg, tasks |-> <<>>]
    ELSE LET problem == TaskProblem(tasks[idx], idx, projectTime)
         IN  IF problem # NoMsg THEN [error |-> problem, tasks |-> <<>>]
             ELSE LET rest == MapTasks(tasks, idx + 1, projectTime)
                  IN  IF rest.error # NoMsg THEN rest
                      ELSE [error |-> NoMsg,
                            tasks |-> <<PreparedTask(tasks[idx])>> \o rest.tasks]

\* a map that reports the last failing task instead of the first
RECURSIVE MapTasksLastFailure(_, _, _)
MapTasksLastFailure(tasks, idx, projectTime) ==
    IF idx > Len(tasks) THEN [error |-> NoMsg, tasks |-> <<>>]
    ELSE LET rest == MapTasksLastFailure(tasks, idx + 1, projectTime)
             problem == TaskProblem(tasks[idx], idx, projectTime)
         IN  IF rest.error # NoMsg THEN rest
             ELSE IF problem # NoMsg THEN [error |-> problem, tasks |-> <<>>]
             ELSE [error |-> NoMsg,
                   tasks |-> <<PreparedTask(tasks[idx])>> \o rest.tasks]

PrepareTasks_LastFailure(tasks, projectTime) ==
    MapTasksLastFailure(tasks, 1, projectTime)

PrepareTasks(tasks, projectTime) == MapTasks(tasks, 1, projectTime)

\* the synchronous part of onCreate: the error it sets, or the payload it sends
ValidateForm(projectDeadline, tasks) ==
    IF projectDeadline = ""
      THEN [error |-> Msg("projects.errors.chooseDeadline", 0), tasks |-> <<>>]
    ELSE IF IsNaN(DateInputTime(projectDeadline))
      THEN [error |-> Msg("projects.errors.invalidDeadline", 0), tasks |-> <<>>]
    ELSE PrepareTasks(tasks, DateInputTime(projectDeadline))

\* CreateProjectPayload: deadline and tasks (name, description and colour are
\* passed through untested)
CreatePayload(projectDeadline, prepared) ==
    [deadline |-> DateInputTime(projectDeadline), tasks |-> prepared]

\* ids the server may give the created project
CreatedProjectIds == {1, 2}

\* error.message of a rejected request: a server message, or none
RejectionMessages == {Msg("http.error", 0), NoMsg}

\* nothing submitted yet
CreateFormUnsubmitted ==
    /\ creating = FALSE
    /\ taskError = NoMsg
    /\ successMessage = NoMsg
    /\ createCalls = <<>>
    /\ submits = 0
    /\ navigatedTo = 0

\* onCreate, up to the await of api.createProject
OnCreate ==
    /\ navigatedTo = 0
    /\ ~creating
    /\ submits < MaxSubmits
    /\ submits' = submits + 1
    /\ successMessage' = NoMsg
    /\ LET checked == ValidateForm(deadline, tasksInput)
       IN  IF checked.error # NoMsg
             THEN /\ taskError' = checked.error
                  /\ UNCHANGED <<creating, createCalls>>
             ELSE /\ creating' = TRUE
                  /\ createCalls' =
                        Append(createCalls, CreatePayload(deadline, checked.tasks))
                  /\ UNCHANGED taskError
    /\ UNCHANGED <<deadline, tasksInput, navigatedTo>>

\* api.createProject resolves: success message, resetForm(), navigate()
CreateResolved ==
    /\ creating
    /\ createCalls # <<>>
    /\ \E id \in CreatedProjectIds : navigatedTo' = id
    /\ createCalls' = Tail(createCalls)
    /\ successMessage' = Msg("projects.success", 0)
    /\ deadline' = ""
    /\ tasksInput' = <<createEmptyTask>>
    /\ creating' = FALSE
    /\ UNCHANGED <<taskError, submits>>

\* api.createProject rejects: the catch and finally blocks
CreateRejected ==
    /\ creating
    /\ createCalls # <<>>
    /\ createCalls' = Tail(createCalls)
    /\ \E m \in RejectionMessages :
          taskError' = IF m # NoMsg THEN m
                       ELSE Msg("projects.errors.createFailed", 0)
    /\ creating' = FALSE
    /\ UNCHANGED <<deadline, tasksInput, successMessage, submits, navigatedTo>>

\* the form as the user has filled it in, before any submission
CreateFormFilled ==
    /\ deadline \in DateInputs
    /\ tasksInput \in TaskDraftLists
    /\ CreateFormUnsubmitted

\* the form as mounted
CreateFormMounted ==
    /\ deadline = ""
    /\ tasksInput = <<createEmptyTask>>
    /\ CreateFormUnsubmitted

-----------------------------------------------------------------------------
(* Deadline urgency classifiers *)

\* 1000 * 60 * 60
MsPerHour == 3600000

\* Math.ceil(a / b) for b > 0
CeilDiv_Floor(a, b) == a \div b

CeilDiv(a, b) == -((-a) \div b)

\* Math.abs
Abs(x) == IF x < 0 THEN -x ELSE x

\* a timestamp argument: null, undefined, '', text that is no date, or an ISO
\* instant
Timestamp(kind, t) == [kind |-> kind, t |-> t]

\* !deadline
Falsy(ts) == ts.kind \in {"null", "undefined", "empty"}

\* new Date(deadline).getTime()
DateTime(ts) == IF ts.kind = "iso" THEN ts.t ELSE NaN

DeadlineInfo(label, tone) == [label |-> label, tone |-> tone]

\* no result computed yet
NoInfo == DeadlineInfo(NoMsg, "")

\* the branches shared by the three classifiers, from diffMs on
ClassifyDiff(diffMs) ==
    LET diffDays == CeilDiv(diffMs, MsPerDay)
        overdue == Abs(diffDays)
    IN  IF diffDays > 1 THEN DeadlineInfo(Msg("deadlines.daysLeft", diffDays), "ok")
        ELSE IF diffDays = 1 THEN DeadlineInfo(Msg("deadlines.dayLeft", 0), "warn")
        ELSE IF diffDays = 0 THEN DeadlineInfo(Msg("deadlines.dueToday", 0), "warn")
        ELSE IF overdue = 1 THEN DeadlineInfo(Msg("deadlines.overdueOne", 0), "danger")
        ELSE DeadlineInfo(Msg("deadlines.overdueMany", overdue), "danger")

\* Dashboard.tsx computeDeadlineInfo
computeDeadlineInfo(ts, now) ==
    IF Falsy(ts) THEN DeadlineInfo(Msg("deadlines.none", 0), "muted")
    ELSE IF IsNaN(DateTime(ts)) THEN DeadlineInfo(Msg("deadlines.invalid", 0), "muted")
    ELSE ClassifyDiff(DateTime(ts) - now)

\* App.tsx (CreateProjectPage) computeBadge
computeBadge(ts, now) ==
    IF Falsy(ts) THEN DeadlineInfo(Msg("deadlines.none", 0), "muted")
    ELSE IF IsNaN(DateTime(ts)) THEN DeadlineInfo(Msg("deadlines.invalid", 0), "muted")
    ELSE ClassifyDiff(DateTime(ts) - now)

\* CalendarMe.tsx safeDate: the instant, or NaN for null
safeDate(ts) == IF Falsy(ts) THEN NaN ELSE DateTime(ts)

\* CalendarMe.tsx computeRemaining
computeRemaining(ts, now) ==
    IF IsNaN(safeDate(ts)) THEN DeadlineInfo(Msg("deadlines.none", 0), "muted")
    ELSE ClassifyDiff(safeDate(ts) - now)

\* instants on the hour, and one millisecond before and after
Instants ==
    {h * MsPerHour + e : h \in 0..MaxHours, e \in {-1, 0, 1}}

ClockValues == {h * MsPerHour : h \in 0..MaxHours}

TimestampInputs ==
    {Timestamp("null", 0), Timestamp("undefined", 0), Timestamp("empty", 0),
     Timestamp("text", 0)} \cup {Timestamp("iso", t) : t \in Instants}

\* nothing classified yet
ClassifierUncalled ==
    /\ deadlineInfo = NoInfo
    /\ badge = NoInfo
    /\ remaining = NoInfo

\* arguments drawn, nothing classified yet
ClassifierInputs ==
    /\ clsDeadline \in TimestampInputs
    /\ clsNow \in ClockValues
    /\ ClassifierUncalled

\* no classifier call under consideration
ClassifierIdle ==
    /\ clsDeadline = Timestamp("null", 0)
    /\ clsNow = 0
    /\ ClassifierUncalled

CallComputeDeadlineInfo ==
    /\ deadlineInfo = NoInfo
    /\ deadlineInfo' = computeDeadlineInfo(clsDeadline, clsNow)
    /\ UNCHANGED <<clsDeadline, clsNow, badge, remaining>>

CallComputeBadge ==
    /\ badge = NoInfo
    /\ badge' = computeBadge(clsDeadline, clsNow)
    /\ UNCHANGED <<clsDeadline, clsNow, deadlineInfo, remaining>>

CallComputeRemaining ==
    /\ remaining = NoInfo
    /\ remaining' = computeRemaining(clsDeadline, clsNow)
    /\ UNCHANGED <<clsDeadline, clsNow, deadlineInfo, badge>>

-----------------------------------------------------------------------------
(* localStorage entry of the archive store, as JSON text *)

\* a localStorage entry: missing, or a text (sequence of characters)
StoredText(text) == [present |-> TRUE, text |-> text]

\* getItem returns null
NoEntry == [present |-> FALSE, text |-> <<>>]

DigitChars == <<"0", "1", "2", "3", "4", "5", "6", "7", "8", "9">>

\* the decimal digits of a non-negative integer
RECURSIVE Digits(_)
Digits(n) ==
    IF n < 10 THEN <<DigitChars[n + 1]>>
    ELSE Digits(n \div 10) \o <<DigitChars[(n % 10) + 1]>>

\* JSON.stringify of a number
StringifyNumber(n) == IF n < 0 THEN <<"-">> \o Digits(0 - n) ELSE Digits(n)

\* the elements of JSON.stringify of an array of numbers, comma separated
RECURSIVE StringifyItems(_)
StringifyItems(ids) ==
    IF ids = <<>> THEN <<>>
    ELSE IF Len(ids) = 1 THEN StringifyNumber(ids[1])
    ELSE StringifyNumber(ids[1]) \o <<",">> \o StringifyItems(Tail(ids))

\* JSON.stringify that writes the ids without separators
JSONStringify_NoCommas(ids) ==
    <<"[">> \o Concat([i \in DOMAIN ids |-> StringifyNumber(ids[i])]) \o <<"]">>

\* JSON.stringify(ids) for ids: number[]
JSONStringify(ids) == <<"[">> \o StringifyItems(ids) \o <<"]">>

\* saveArchivedProjectIds: the entry it leaves in localStorage
SavedEntry(ids) == StoredText(JSONStringify(ids))

-----------------------------------------------------------------------------
(* JSON.parse on the text of the entry *)

\* a parsed JSON value: number, string, boolean (n = 1 / 0), null, array, object
JNum(n) == [t |-> "num", n |-> n, s |-> <<>>, items |-> <<>>]
JStr(chars) == [t |-> "str", n |-> 0, s |-> chars, items |-> <<>>]
JBool(b) == [t |-> "bool", n |-> IF b THEN 1 ELSE 0, s |-> <<>>, items |-> <<>>]
JNull == [t |-> "null", n |-> 0, s |-> <<>>, items |-> <<>>]
JArr(items) == [t |-> "arr", n |-> 0, s |-> <<>>, items |-> items]
JObj == [t |-> "obj", n |-> 0, s |-> <<>>, items |-> <<>>]

\* a parse step: the value and the position after it, or a SyntaxError
Parsed(val, pos) == [ok |-> TRUE, val |-> val, pos |-> pos]
SyntaxError == [ok |-> FALSE, val |-> JNull, pos |-> 0]

\* the character at pos, "" past the end
At(text, pos) == IF pos >= 1 /\ pos <= Len(text) THEN text[pos] ELSE ""

IsDigit(c) == \E d \in DOMAIN DigitChars : DigitChars[d] = c

DigitValue(c) == (CHOOSE d \in DOMAIN DigitChars : DigitChars[d] = c) - 1

RECURSIVE SkipWs(_, _)
SkipWs(text, pos) ==
    IF At(text, pos) = " " THEN SkipWs(text, pos + 1) ELSE pos

\* the digits from pos on, accumulated; at least one digit is at pos
RECURSIVE ParseDigits(_, _, _)
ParseDigits(text, pos, acc) ==
    IF IsDigit(At(text, pos))
      THEN ParseDigits(text, pos + 1, 10 * acc + DigitValue(At(text, pos)))
      ELSE [n |-> acc, pos |-> pos]

\* an integer literal: optional minus, no leading zero
ParseNumber(text, pos) ==
    LET negative == At(text, pos) = "-"
        start == IF negative THEN pos + 1 ELSE pos
        digits == ParseDigits(text, start, 0)
    IN  IF ~IsDigit(At(text, start)) THEN SyntaxError
        ELSE IF At(text, start) = "0" /\ IsDigit(At(text, start + 1)) THEN SyntaxError
        ELSE Parsed(JNum(IF negative THEN 0 - digits.n ELSE digits.n), digits.pos)

\* the literal word at pos
ParseLiteral(text, pos, word, val) ==
    IF SubSeq(text, pos, pos + Len(word) - 1) = word
      THEN Parsed(val, pos + Len(word)) ELSE SyntaxError

\* the position of the closing quote of a string whose content starts at pos
RECURSIVE ClosingQuote(_, _)
ClosingQuote(text, pos) ==
    IF pos > Len(text) THEN 0
    ELSE IF text[pos] = "\"" THEN pos
    ELSE ClosingQuote(text, pos + 1)

\* a string literal (without escapes)
ParseString(text, pos) ==
    LET close == ClosingQuote(text, pos + 1)
    IN  IF At(text, pos) # "\"" \/ close = 0 THEN SyntaxError
        ELSE Parsed(JStr(SubSeq(text, pos + 1, close - 1)), close + 1)

RECURSIVE ParseValue(_, _)
RECURSIVE ParseElements(_, _, _)
RECURSIVE ParseMembers(_, _)

\* the elements of an array after '[' or ',', up to and including ']'
ParseElements(text, pos, acc) ==
    LET element == ParseValue(text, pos)
        after == SkipWs(text, element.pos)
    IN  IF ~element.ok THEN SyntaxError
        ELSE IF At(text, after) = "," 
          THEN ParseElements(text, after + 1, Append(acc, element.val))
        ELSE IF At(text, after) = "]"
          THEN Parsed(JArr(Append(acc, element.val)), after + 1)
        ELSE SyntaxError

\* the members of an object after '{' or ',', up to and including '}'
ParseMembers(text, pos) ==
    LET key == ParseString(text, SkipWs(text, pos))
        colon == SkipWs(text, key.pos)
        property == ParseValue(text, colon + 1)
        after == SkipWs(text, property.pos)
    IN  IF ~key.ok \/ At(text, colon) # ":" THEN SyntaxError
        ELSE IF ~property.ok THEN SyntaxError
        ELSE IF At(text, after) = "," THEN ParseMembers(text, after + 1)
        ELSE IF At(text, after) = "}" THEN Parsed(JObj, after + 1)
        ELSE SyntaxError

\* one JSON value, leading whitespace skipped
ParseValue(text, pos) ==
    LET start == SkipWs(text, pos)
        c == At(text, start)
    IN  IF c = "[" 
          THEN IF At(text, SkipWs(text, start + 1)) = "]"
                 THEN Parsed(JArr(<<>>), SkipWs(text, start + 1) + 1)
                 ELSE ParseElements(text, start + 1, <<>>)
        ELSE IF c = "{"
          THEN IF At(text, SkipWs(text, start + 1)) = "}"
                 THEN Parsed(JObj, SkipWs(text, start + 1) + 1)
                 ELSE ParseMembers(text, start + 1)
        ELSE IF c = "\"" THEN ParseString(text, start)
        ELSE IF c = "t" THEN ParseLiteral(text, start, <<"t", "r", "u", "e">>, JBool(TRUE))
        ELSE IF c = "f"
          THEN ParseLiteral(text, start, <<"f", "a", "l", "s", "e">>, JBool(FALSE))
        ELSE IF c = "n" THEN ParseLiteral(text, start, <<"n", "u", "l", "l">>, JNull)
        ELSE ParseNumber(text, start)

\* JSON.parse: the value, or a SyntaxError when the text is no JSON text
JSONParse(text) ==
    LET parsed == ParseValue(text, 1)
    IN  IF parsed.ok /\ SkipWs(text, parsed.pos) = Len(text) + 1 THEN parsed
        ELSE SyntaxError

\* Number(text) for a string: '' is 0, an integer literal its value, else NaN
StringToNumber(chars) ==
    LET trimmed == Trim(chars)
        negative == At(trimmed, 1) = "-"
        start == IF negative THEN 2 ELSE 1
        digits == ParseDigits(trimmed, start, 0)
    IN  IF trimmed = <<>> THEN 0
        ELSE IF IsDigit(At(trimmed, start)) /\ digits.pos = Len(trimmed) + 1
          THEN IF negative THEN 0 - digits.n ELSE digits.n
        ELSE NaN

\* Number(value) for a parsed JSON value; an array converts through its
\* string form: [] is '', [x] is String(x), longer arrays have commas
RECURSIVE ToNumber(_)
ToNumber(val) ==
    CASE val.t = "num" -> val.n
      [] val.t = "str" -> StringToNumber(val.s)
      [] val.t = "bool" -> val.n
      [] val.t = "null" -> 0
      [] val.t = "arr" ->
            IF Len(val.items) = 0 THEN 0
            ELSE IF Len(val.items) > 1 THEN NaN
            ELSE IF val.items[1].t \in {"num", "str", "arr"} THEN ToNumber(val.items[1])
            ELSE IF val.items[1].t = "null" THEN 0
            ELSE NaN
      [] OTHER -> NaN

-----------------------------------------------------------------------------
(* archive store: loadArchivedProjectIds / saveArchivedProjectIds *)

\* isClient(): the code runs in a browser
isClient == TRUE

\* what a call returned: the ids, or that it threw
Returned(ids) == [called |-> TRUE, threw |-> FALSE, ids |-> ids]
Threw == [called |-> TRUE, threw |-> TRUE, ids |-> <<>>]
NotLoaded == [called |-> FALSE, threw |-> FALSE, ids |-> <<>>]

\* Number.isFinite(value) && value > 0
KeepsId(value) == ~IsNaN(value) /\ value > 0

\* parsed.map((value) => Number(value)).filter(...)
SanitizedIds(items) ==
    SelectSeq([i \in DOMAIN items |-> ToNumber(items[i])], LAMBDA value : KeepsId(value))

\* loadArchivedProjectIds without its try/catch
loadArchivedProjectIds_NoCatch(entry) ==
    IF ~isClient THEN Returned(<<>>)
    ELSE IF ~entry.present \/ entry.text = <<>> THEN Returned(<<>>)
    ELSE LET parsed == JSONParse(entry.text)
         IN  IF ~parsed.ok THEN Threw
             ELSE IF parsed.val.t # "arr" THEN Returned(<<>>)
             ELSE Returned(SanitizedIds(parsed.val.items))

\* loadArchivedProjectIds
loadArchivedProjectIds(entry) ==
    IF ~isClient THEN Returned(<<>>)
    ELSE IF ~entry.present \/ entry.text = <<>> THEN Returned(<<>>)
    ELSE LET parsed == JSONParse(entry.text)
         IN  IF ~parsed.ok THEN Returned(<<>>)
             ELSE IF parsed.val.t # "arr" THEN Returned(<<>>)
             ELSE Returned(SanitizedIds(parsed.val.items))

\* project ids (positive integers, of one to three digits)
ArchivableIds == {1, 2, 5, 9, 10, 12, 120}

\* lists of positive project ids
IdLists == UNION {[1..n -> ArchivableIds] : n \in 0..MaxIds}

\* entries that something other than saveArchivedProjectIds left: none, the
\* empty text, texts that are no JSON, JSON texts that are no array, and an
\* array with entries that are no positive numbers
Text_oops == <<"o", "o", "p", "s">>
Text_truncated == <<"[", "5", ",", "9">>
Text_leadingZero == <<"[", "0", "5", "]">>
Text_object == <<"{", "\"", "a", "\"", ":", "[", "5", "]", "}">>
Text_emptyObject == <<"{", "}">>
Text_number == <<"5">>
Text_null == <<"n", "u", "l", "l">>
Text_string == <<"\"", "5", "\"">>
Text_mixedArray == <<"[", "\"", "7", "\"", ",", "0", ",", " ", "-", "3", ",", "1", "2", "]">>

Text_coercibleArray ==
    <<"[", "t", "r", "u", "e", ",", "[", "9", "]", ",", "n", "u", "l", "l", ",",
      "{", "}", ",", "f", "a", "l", "s", "e", ",", "5", "]">>

NotJsonEntries ==
    {StoredText(<<>>), StoredText(Text_oops), StoredText(Text_truncated),
     StoredText(Text_leadingZero)}

NotArrayEntries ==
    {StoredText(Text_object), StoredText(Text_emptyObject), StoredText(Text_number),
     StoredText(Text_null), StoredText(Text_string)}

ForeignEntries ==
    {NoEntry, StoredText(Text_mixedArray), StoredText(Text_coercibleArray)}
        \cup NotJsonEntries \cup NotArrayEntries

\* saveArchivedProjectIds(ids)
SaveArchived ==
    /\ isClient
    /\ \E ids \in IdLists : archiveStorage' = SavedEntry(ids)
    /\ loadResult' = NotLoaded

\* the entry is removed or overwritten from outside the store
OverwriteEntry ==
    /\ \E entry \in ForeignEntries : archiveStorage' = entry
    /\ loadResult' = NotLoaded

\* loadArchivedProjectIds()
LoadArchived ==
    /\ loadResult = NotLoaded
    /\ loadResult' = loadArchivedProjectIds(archiveStorage)
    /\ UNCHANGED archiveStorage

-----------------------------------------------------------------------------
(* DashboardPage: tag / project-status / task-status / archive filters *)

\* String.prototype.toLowerCase on one character
LowerChar(c) ==
    CASE c = "D" -> "d"
      [] c = "Q" -> "q"
      [] c = "A" -> "a"
      [] OTHER -> c

\* String.prototype.toLowerCase
ToLowerCase(s) == [i \in DOMAIN s |-> LowerChar(s[i])]

\* normalizeTag
normalizeTag(value) == ToLowerCase(Trim(value))

\* the value a map callback returns for a dropped project
NullProject == [id |-> 0, status |-> "", deadline |-> Timestamp("null", 0),
                tasks |-> <<>>]

\* (status || '').toString().toUpperCase(): the server sends upper-case names
StatusKey(status) == status

\* task.tags.some((tag) => normalizeTag(tag) === normalized)
TagMatches_CaseSensitive(task, normalized) ==
    \E k \in DOMAIN task.tags : Trim(task.tags[k]) = normalized

TagMatches(task, normalized) ==
    \E k \in DOMAIN task.tags : normalizeTag(task.tags[k]) = normalized

\* filterProjectsByTag, with the tagFilter state as a parameter
filterProjectsByTag(projects, tagF) ==
    IF tagF = <<>> THEN projects
    ELSE LET normalized == normalizeTag(tagF)
             mapped == [i \in DOMAIN projects |->
                          LET filteredTasks ==
                                SelectSeq(projects[i].tasks,
                                          LAMBDA task : TagMatches(task, normalized))
                          IN  IF Len(filteredTasks) = 0 THEN NullProject
                              ELSE [projects[i] EXCEPT !.tasks = filteredTasks]]
         IN  SelectSeq(mapped, LAMBDA project : project # NullProject)

\* archivedProjectIds.includes(id)
Includes(ids, id) == \E i \in DOMAIN ids : ids[i] = id

\* project.deadline ? new Date(project.deadline).getTime() : NaN
DeadlineTime(ts) == IF Falsy(ts) THEN NaN ELSE DateTime(ts)

\* isOverdue of applyProjectFilters
IsOverdue_IgnoresCompletion(project, now) ==
    ~IsNaN(DeadlineTime(project.deadline)) /\ NumLt(DeadlineTime(project.deadline), now)

IsOverdue(project, now) ==
    /\ StatusKey(project.status) # "COMPLETED"
    /\ ~IsNaN(DeadlineTime(project.deadline))
    /\ NumLt(DeadlineTime(project.deadline), now)

\* the switch on projectStatusFilter
IncludeProject_DefaultShowsAll(project, psFilter, archivedIds, now) ==
    LET isArchived == Includes(archivedIds, project.id)
        isCompleted == StatusKey(project.status) = "COMPLETED"
        isOverdue == IsOverdue(project, now)
    IN  CASE psFilter = "archived" -> isArchived
          [] psFilter = "completed" -> ~isArchived /\ isCompleted
          [] psFilter = "overdue" -> ~isArchived /\ isOverdue
          [] psFilter = "active" -> ~isArchived /\ ~isCompleted /\ ~isOverdue
          [] OTHER -> TRUE

IncludeProject(project, psFilter, archivedIds, now) ==
    LET isArchived == Includes(archivedIds, project.id)
        isCompleted == StatusKey(project.status) = "COMPLETED"
        isOverdue == IsOverdue(project, now)
    IN  CASE psFilter = "archived" -> isArchived
          [] psFilter = "completed" -> ~isArchived /\ isCompleted
          [] psFilter = "overdue" -> ~isArchived /\ isOverdue
          [] psFilter = "active" -> ~isArchived /\ ~isCompleted /\ ~isOverdue
          [] OTHER -> ~isArchived

\* the callback of project.tasks.filter
TaskPassesStatusFilter(task, tsFilter, now) ==
    IF tsFilter = "all" THEN TRUE
    ELSE IF tsFilter = "overdue"
      THEN IF StatusKey(task.status) = "COMPLETED" THEN FALSE
           ELSE /\ ~IsNaN(DeadlineTime(task.deadline))
                /\ NumLt(DeadlineTime(task.deadline), now)
    ELSE StatusKey(task.status) = tsFilter

\* applyProjectFilters, with the state it closes over as parameters
FilterPipeline_DropsEmptied(projects, tagF, psFilter, tsFilter, archivedIds, now) ==
    LET tagged == filterProjectsByTag(projects, tagF)
        mapped == [i \in DOMAIN tagged |->
                     LET narrowed ==
                           SelectSeq(tagged[i].tasks,
                                     LAMBDA task : TaskPassesStatusFilter(task, tsFilter, now))
                     IN  IF ~IncludeProject(tagged[i], psFilter, archivedIds, now)
                              \/ Len(narrowed) = 0
                           THEN NullProject
                           ELSE [tagged[i] EXCEPT !.tasks = narrowed]]
    IN  SelectSeq(mapped, LAMBDA project : project # NullProject)

FilterPipeline(projects, tagF, psFilter, tsFilter, archivedIds, now) ==
    LET tagged == filterProjectsByTag(projects, tagF)
        mapped == [i \in DOMAIN tagged |->
                     IF ~IncludeProject(tagged[i], psFilter, archivedIds, now)
                       THEN NullProject
                       ELSE [tagged[i] EXCEPT !.tasks =
                               SelectSeq(tagged[i].tasks,
                                         LAMBDA task :
                                            TaskPassesStatusFilter(task, tsFilter, now))]]
    IN  SelectSeq(mapped, LAMBDA project : project # NullProject)

\* applyProjectFilters
applyProjectFilters(projects) ==
    FilterPipeline(projects, tagFilter, projectStatusFilter, taskStatusFilter,
                   archivedProjectIds, filterNow)

\* useMemo filteredAdminProjects / filteredMemberProjects
filteredAdminProjects == applyProjectFilters(admin)

filteredMemberProjects == applyProjectFilters(member)

\* the tags of all tasks of all projects, in forEach order
TagsInOrder(projects) ==
    Concat([i \in DOMAIN projects |->
              Concat([j \in DOMAIN projects[i].tasks |-> projects[i].tasks[j].tags])])

\* the Map of availableTags: the first spelling of every non-empty normalized tag
RECURSIVE FirstSpellings(_)
FirstSpellings(tags) ==
    IF tags = <<>> THEN <<>>
    ELSE LET init == FirstSpellings(SubSeq(tags, 1, Len(tags) - 1))
             last == tags[Len(tags)]
         IN  IF normalizeTag(last) = <<>> THEN init
             ELSE IF \E i \in DOMAIN init : normalizeTag(init[i]) = normalizeTag(last)
               THEN init
             ELSE Append(init, last)

\* availableTags, as the set of <option> values (the sort only orders them)
availableTags ==
    LET spellings == FirstSpellings(TagsInOrder(admin \o member))
    IN  {spellings[i] : i \in DOMAIN spellings}

\* <option> values of the project-status select
ProjectStatusFilters == {"all", "active", "completed", "overdue", "archived"}

\* <option> values of the task-status select that the model exercises
TaskStatusFilters == {"all", "COMPLETED", "overdue"}

\* Date.now() at the evaluation of the filters
FilterClock == MsPerDay

ProjectTask(id, tags, status, ts) ==
    [id |-> id, tags |-> tags, status |-> status, deadline |-> ts]

Project(id, status, ts, tasks) ==
    [id |-> id, status |-> status, deadline |-> ts, tasks |-> tasks]

Tag_Design == <<"D", "e", "s", "i", "g", "n">>
Tag_QA == <<"Q", "A">>
Tag_qa_padded == <<" ", "q", "a", " ">>

\* an open, overdue task tagged Design and a completed task tagged QA
TasksDesignAndQA(projectId) ==
    << ProjectTask(10 * projectId + 1, <<Tag_Design>>, "NEW",
                   Timestamp("iso", FilterClock - MsPerHour)),
       ProjectTask(10 * projectId + 2, <<Tag_QA>>, "COMPLETED",
                   Timestamp("null", 0)) >>

\* one completed task, past its deadline, tagged ' qa '
TasksPaddedQa(projectId) ==
    << ProjectTask(10 * projectId + 1, <<Tag_qa_padded>>, "COMPLETED",
                   Timestamp("iso", FilterClock - MsPerHour)) >>

ProjectStatuses == {"ACTIVE", "COMPLETED"}

\* project deadlines: none, text that is no date, one hour ago, exactly now
ProjectDeadlines ==
    {Timestamp("null", 0), Timestamp("text", 0),
     Timestamp("iso", FilterClock - MsPerHour), Timestamp("iso", FilterClock)}

\* the deadline is the one an hour before the filter clock
IsPastDeadline(ts) == ts = Timestamp("iso", FilterClock - MsPerHour)

\* the projects the server may return under an id: an active project with
\* every deadline, a completed one with no deadline and with a past deadline;
\* both task lists occur with both statuses
ServerProjects(id) ==
    {Project(id, c.status, c.ts,
             IF IsPastDeadline(c.ts) \/ (c.status = "ACTIVE" /\ c.ts.kind = "null")
               THEN TasksDesignAndQA(id) ELSE TasksPaddedQa(id)) :
        c \in {x \in [status : ProjectStatuses, ts : ProjectDeadlines] :
                  \/ x.status = "ACTIVE"
                  \/ x.ts.kind = "null"
                  \/ IsPastDeadline(x.ts)}}

\* ascending sequences over the subsets of 1..n
RECURSIVE AscendingSeqs(_)
AscendingSeqs(n) ==
    IF n = 0 THEN {<<>>}
    ELSE LET shorter == AscendingSeqs(n - 1)
         IN  shorter \cup {Append(ids, n) : ids \in shorter}

\* the page after loadDashboardData has stored the server's answer: projects
\* 1..k administered, k+1..MaxProjects as member, filters at their defaults,
\* archived ids restricted to the returned projects
DashboardLoaded ==
    /\ \E k \in 0..MaxProjects :
         \E all \in [1..MaxProjects -> UNION {ServerProjects(id) : id \in 1..MaxProjects}] :
             /\ \A id \in 1..MaxProjects : all[id].id = id
             /\ admin = SubSeq(all, 1, k)
             /\ member = SubSeq(all, k + 1, MaxProjects)
    /\ tagFilter = <<>>
    /\ projectStatusFilter = "all"
    /\ taskStatusFilter = "all"
    /\ archivedProjectIds \in AscendingSeqs(MaxProjects)
    /\ filterNow = FilterClock
    /\ archiveStorage = SavedEntry(archivedProjectIds)
    /\ loadResult = NotLoaded

\* ids of the projects and of their tasks
ProjectIds == 1..MaxProjects
AllTaskIds == {10 * p + k : p \in ProjectIds, k \in 1..2}

\* users: the signed-in one and a colleague; 0 stands for null
NoUser == 0
Me == 1
Colleague == 2

\* selection records with every entry '' or absent
NoTaskSelections == [id \in AllTaskIds |-> 0]
NoProjectSelections == [id \in ProjectIds |-> 0]

\* AuthProvider before its first effect
AuthUnmounted ==
    /\ token = FALSE
    /\ user = NoUser
    /\ authLoading = TRUE
    /\ mounted = FALSE
    /\ authCalls = <<>>
    /\ location = [path |-> "/", by |-> "user"]

\* AuthProvider with the session revalidated
AuthSignedIn ==
    /\ token = TRUE
    /\ user = Me
    /\ authLoading = FALSE
    /\ mounted = TRUE
    /\ authCalls = <<[endpoint |-> "/auth/me", pc |-> "ok", identity |-> Me]>>
    /\ location = [path |-> "/dashboard", by |-> "user"]

\* the request state of the page at its useState defaults, nothing in flight
BoardAtDefaults ==
    /\ error = NoMsg
    /\ notice = NoMsg
    /\ deleting = 0
    /\ confirming = 0
    /\ taskListSelections = NoTaskSelections
    /\ taskUserSelections = NoTaskSelections
    /\ assigningFromList = {}
    /\ lastListByProject = NoProjectSelections
    /\ taskUpdating = {}
    /\ projectStatusUpdating = {}
    /\ calls = <<>>

\* the page not mounted: no data, loading at its default
BoardUnmounted ==
    /\ BoardAtDefaults
    /\ loading = TRUE
    /\ lists = <<>>
    /\ server = [admin |-> <<>>, member |-> <<>>, lists |-> <<>>]

\* the page after its first loadDashboardData, when the user has no colleague
\* lists: the backend holds what the page shows
BoardLoadedWithoutLists ==
    /\ BoardAtDefaults
    /\ loading = FALSE
    /\ lists = <<>>
    /\ server = [admin |-> admin, member |-> member, lists |-> <<>>]

\* the task ids of projects.find((item) => item.id === projectId), none when
\* there is no such project
TaskIdsOfProject(projects, projectId) ==
    UNION {{projects[a].tasks[k].id : k \in DOMAIN projects[a].tasks} :
              a \in {x \in DOMAIN projects : projects[x].id = projectId}}

\* the lists and the filter bar are rendered: !loading && !error
Rendered == ~loading /\ error = NoMsg

\* the page not mounted
DashboardIdle ==
    /\ admin = <<>>
    /\ member = <<>>
    /\ tagFilter = <<>>
    /\ projectStatusFilter = "all"
    /\ taskStatusFilter = "all"
    /\ archivedProjectIds = <<>>
    /\ filterNow = 0

\* onChange of the tag select, and the clear button
SetTagFilter ==
    /\ Rendered
    /\ \E value \in {<<>>} \cup availableTags :
          /\ value # tagFilter
          /\ tagFilter' = value
    /\ UNCHANGED <<admin, member, projectStatusFilter, taskStatusFilter,
                   archivedProjectIds, filterNow, archiveStorage, loadResult>>
    /\ UNCHANGED <<authVars, boardVars>>

\* onChange of the project-status select
SetProjectStatusFilter ==
    /\ Rendered
    /\ \E value \in ProjectStatusFilters :
          /\ value # projectStatusFilter
          /\ projectStatusFilter' = value
    /\ UNCHANGED <<admin, member, tagFilter, taskStatusFilter,
                   archivedProjectIds, filterNow, archiveStorage, loadResult>>
    /\ UNCHANGED <<authVars, boardVars>>

\* onChange of the task-status select
SetTaskStatusFilter ==
    /\ Rendered
    /\ \E value \in TaskStatusFilters :
          /\ value # taskStatusFilter
          /\ taskStatusFilter' = value
    /\ UNCHANGED <<admin, member, tagFilter, projectStatusFilter,
                   archivedProjectIds, filterNow, archiveStorage, loadResult>>
    /\ UNCHANGED <<authVars, boardVars>>

\* archiveProject, from the archive button of a rendered, completed admin
\* project, followed by the effect that saves archivedProjectIds
ArchiveProject ==
    /\ Rendered
    /\ \E i \in DOMAIN filteredAdminProjects :
          LET project == filteredAdminProjects[i]
              sourceTaskIds == TaskIdsOfProject(admin, project.id)
          IN  /\ ~Includes(archivedProjectIds, project.id)
              /\ project.status = "COMPLETED"
              /\ archivedProjectIds' =
                    IF Includes(archivedProjectIds, project.id)
                      THEN archivedProjectIds
                      ELSE Append(archivedProjectIds, project.id)
              /\ lastListByProject' = [lastListByProject EXCEPT ![project.id] = 0]
              /\ taskListSelections' =
                    [id \in AllTaskIds |->
                        IF id \in sourceTaskIds THEN 0 ELSE taskListSelections[id]]
              /\ taskUserSelections' =
                    [id \in AllTaskIds |->
                        IF id \in sourceTaskIds THEN 0 ELSE taskUserSelections[id]]
    /\ notice' = Msg("dashboard.archiveSuccess", 0)
    /\ archiveStorage' = SavedEntry(archivedProjectIds')
    /\ UNCHANGED <<admin, member, tagFilter, projectStatusFilter,
                   taskStatusFilter, filterNow, loadResult>>
    /\ UNCHANGED <<authVars, loading, error, deleteVars, lists, assigningFromList,
                   updateVars, calls, server>>

\* restoreProject, from the restore button of a rendered, archived admin
\* project, followed by the effect that saves archivedProjectIds
RestoreProject ==
    /\ Rendered
    /\ \E i \in DOMAIN filteredAdminProjects :
          LET project == filteredAdminProjects[i]
          IN  /\ Includes(archivedProjectIds, project.id)
              /\ archivedProjectIds' =
                    SelectSeq(archivedProjectIds, LAMBDA id : id # project.id)
    /\ notice' = Msg("dashboard.restoreSuccess", 0)
    /\ archiveStorage' = SavedEntry(archivedProjectIds')
    /\ UNCHANGED <<admin, member, tagFilter, projectStatusFilter,
                   taskStatusFilter, filterNow, loadResult>>
    /\ UNCHANGED <<authVars, loading, error, deleteVars, assignVars, updateVars,
                   calls, server>>

\* the timer of the notice effect: three seconds after a notice was set
NoticeTimeout ==
    /\ notice # NoMsg
    /\ notice' = NoMsg
    /\ UNCHANGED <<dashVars, storeVars, authVars, loading, error, deleteVars,
                   assignVars, updateVars, calls, server>>

-----------------------------------------------------------------------------
(* DashboardPage: task transitions and project status changes *)

\* task statuses of the backend
TaskStatuses == {"NEW", "IN_PROGRESS", "SUBMITTED", "HELP_REQUESTED", "DECLINED", "COMPLETED"}

\* the statuses the specification calls active
ActiveTaskStatuses == {"NEW", "IN_PROGRESS", "HELP_REQUESTED", "DECLINED"}

\* a task with its assignee (a user id, NoUser for null)
AssignedTask(id, status, assignedTo) ==
    [id |-> id, tags |-> <<Tag_QA>>, status |-> status,
     deadline |-> Timestamp("null", 0), assignedTo |-> assignedTo]

\* api.completeTask(taskId): POST /tasks/:id/complete
completeTask(taskId) ==
    [method |-> "POST", resource |-> "tasks", id |-> taskId, operation |-> "complete"]

\* api.reopenTask(taskId): POST /tasks/:id/reopen
reopenTask(taskId) ==
    [method |-> "POST", resource |-> "tasks", id |-> taskId, operation |-> "reopen"]

\* api.updateProjectStatus(projectId, status): PATCH /projects/:id/status
updateProjectStatus(projectId, status) ==
    [method |-> "PATCH", resource |-> "projects", id |-> projectId, operation |-> status]

\* api.deleteProject(projectId): DELETE /projects/:id
deleteProject(projectId) ==
    [method |-> "DELETE", resource |-> "projects", id |-> projectId, operation |-> ""]

\* a handler invocation: the status its task or project showed at the click,
\* the request it issued, the notice it sets on success, the promise it awaits
\* ("action", then "load", then "done"), how its request and its re-fetch
\* settled ("" while in flight, "ok", "failed") and the number of re-fetches it
\* has issued; projectId and listId are the constants handleAssignFromList
\* holds across its awaits, 0 in the other handlers
Call(handler, id, from, request, successKey) ==
    [handler |-> handler, id |-> id, from |-> from, request |-> request,
     successKey |-> successKey, pc |-> "action", outcome |-> "", reload |-> "",
     fetches |-> 0, projectId |-> 0, listId |-> 0]

\* the handlers that go through updateTask
TaskHandlers ==
    {"handleSubmitTask", "handleApproveTask", "handleCompleteTask", "handleReopenTask"}

\* projects.map((project) => ... tasks.map((task) => task.id === id ? f(task) : task))
MapTasks2(projects, projectId, taskId, newTask) ==
    [a \in DOMAIN projects |->
        IF projects[a].id = projectId
          THEN [projects[a] EXCEPT !.tasks =
                   [k \in DOMAIN projects[a].tasks |->
                       IF projects[a].tasks[k].id = taskId THEN newTask
                       ELSE projects[a].tasks[k]]]
          ELSE projects[a]]

\* projects.map((project) => (project.id === overview.id ? overview : project))
MapProject(projects, overview) ==
    [a \in DOMAIN projects |->
        IF projects[a].id = overview.id THEN overview ELSE projects[a]]

\* the project that holds the task, and the task, in the backend's data
ServerAll == server.admin \o server.member

\* the backend still holds the task or the project of a request; it answers
\* a request for something it no longer holds with an error
ServerHasTask(taskId) ==
    \E a \in DOMAIN ServerAll :
        \E k \in DOMAIN ServerAll[a].tasks : ServerAll[a].tasks[k].id = taskId

ServerHasProject(projectId) ==
    \E a \in DOMAIN ServerAll : ServerAll[a].id = projectId

ServerProjectOf(taskId) ==
    CHOOSE project \in {ServerAll[a] : a \in DOMAIN ServerAll} :
        \E k \in DOMAIN project.tasks : project.tasks[k].id = taskId

ServerTask(taskId) ==
    LET project == ServerProjectOf(taskId)
    IN  project.tasks[CHOOSE k \in DOMAIN project.tasks : project.tasks[k].id = taskId]

ServerProject(projectId) ==
    CHOOSE project \in {ServerAll[a] : a \in DOMAIN ServerAll} : project.id = projectId

\* the statuses the backend may answer with: the complete operation leaves the
\* task submitted or completed, the reopen operation leaves it active
ResponseStatuses(request) ==
    IF request.operation = "complete" THEN {"SUBMITTED", "COMPLETED"}
    ELSE ActiveTaskStatuses

\* the ids of the lists that have a member with a contact
ListsWithMembersIds(listData) ==
    {listData[l].id : l \in {x \in DOMAIN listData :
        \E m \in DOMAIN listData[x].members : listData[x].members[m].contact # NoUser}}

\* `!!taskUpdating[task.id]`
TaskPending_Never(taskId) == FALSE

TaskPending(taskId) == taskId \in taskUpdating

\* the buttons renderAdminTaskActions returns for a task
renderAdminTaskActions_CompleteAlways(task) ==
    IF StatusKey(task.status) = "SUBMITTED" THEN {"approve", "reopen", "complete"}
    ELSE IF StatusKey(task.status) = "COMPLETED" THEN {"reopen", "complete"}
    ELSE {"complete"}

renderAdminTaskActions(task) ==
    IF StatusKey(task.status) = "SUBMITTED" THEN {"approve", "reopen"}
    ELSE IF StatusKey(task.status) = "COMPLETED" THEN {"reopen"}
    ELSE {"complete"}

\* `x?.id`: undefined (-1) for null
OptionalId(userId) == IF userId = NoUser THEN -1 ELSE userId

\* the buttons renderMemberTaskActions returns for a task
renderMemberTaskActions_AnyAssignee(task, currentUser) ==
    IF StatusKey(task.status) = "COMPLETED" THEN {}
    ELSE IF StatusKey(task.status) = "SUBMITTED" THEN {}
    ELSE {"submit"}

renderMemberTaskActions_OnlyFreshTasks(task, currentUser) ==
    IF OptionalId(task.assignedTo) # OptionalId(currentUser) THEN {}
    ELSE IF StatusKey(task.status) \in {"NEW", "IN_PROGRESS"} THEN {"submit"}
    ELSE {}

renderMemberTaskActions(task, currentUser) ==
    IF OptionalId(task.assignedTo) # OptionalId(currentUser) THEN {}
    ELSE IF StatusKey(task.status) = "COMPLETED" THEN {}
    ELSE IF StatusKey(task.status) = "SUBMITTED" THEN {}
    ELSE {"submit"}

\* the positions <<project, task>> of the tasks of a project list
TaskSlots(projects) ==
    UNION {{<<a, k>> : k \in DOMAIN projects[a].tasks} : a \in DOMAIN projects}

\* the buttons renderProjects puts under the tasks of a list: the admin
\* actions when showDelete is set, the member actions otherwise; every button
\* carries disabled={pending}
ButtonsOfList(projects, showDelete) ==
    UNION {{[showDelete |-> showDelete, projectId |-> projects[slot[1]].id,
             taskId |-> projects[slot[1]].tasks[slot[2]].id,
             status |-> projects[slot[1]].tasks[slot[2]].status, button |-> b,
             disabled |-> TaskPending(projects[slot[1]].tasks[slot[2]].id)] :
               b \in IF showDelete
                       THEN renderAdminTaskActions(projects[slot[1]].tasks[slot[2]])
                       ELSE renderMemberTaskActions(projects[slot[1]].tasks[slot[2]], user)} :
           slot \in TaskSlots(projects)}

\* the task buttons on the page
TaskButtons ==
    IF ~Rendered THEN {}
    ELSE ButtonsOfList(filteredAdminProjects, TRUE)
            \cup ButtonsOfList(filteredMemberProjects, FALSE)

\* e.message || fallback
ErrorText_MessageOnly(message, fallback) == message

ErrorText(message, fallback) == IF message = NoMsg THEN fallback ELSE message

\* updateTask up to its first await: the gates are set and action() is called
updateTask(button, handler, request, successKey) ==
    /\ ~button.disabled
    /\ Len(calls) < MaxCalls
    /\ error' = NoMsg
    /\ notice' = NoMsg
    /\ taskUpdating' = taskUpdating \cup {button.taskId}
    /\ calls' = Append(calls, Call(handler, button.taskId, button.status, request,
                                   successKey))
    /\ UNCHANGED <<dashVars, storeVars, authVars, loading, deleteVars, assignVars,
                   projectStatusUpdating, server>>

handleSubmitTask ==
    \E b \in TaskButtons :
        /\ b.button = "submit"
        /\ updateTask(b, "handleSubmitTask", completeTask(b.taskId),
                      Msg("dashboard.submitSuccess", 0))

handleApproveTask ==
    \E b \in TaskButtons :
        /\ b.button = "approve"
        /\ updateTask(b, "handleApproveTask", completeTask(b.taskId),
                      Msg("dashboard.approveSuccess", 0))

handleCompleteTask ==
    \E b \in TaskButtons :
        /\ b.button = "complete"
        /\ updateTask(b, "handleCompleteTask", completeTask(b.taskId),
                      Msg("dashboard.completeSuccess", 0))

handleReopenTask ==
    \E b \in TaskButtons :
        /\ b.button = "reopen"
        /\ updateTask(b, "handleReopenTask", reopenTask(b.taskId),
                      Msg("dashboard.reopenSuccess", 0))

\* the project-status button of an admin project: reopen for a completed
\* project, complete otherwise; disabled={projectStatusPending}
handleProjectStatusChange ==
    /\ Rendered
    /\ Len(calls) < MaxCalls
    /\ \E a \in DOMAIN filteredAdminProjects :
          LET project == filteredAdminProjects[a]
              status == IF project.status = "COMPLETED" THEN "ACTIVE" ELSE "COMPLETED"
          IN  /\ project.id \notin projectStatusUpdating
              /\ projectStatusUpdating' = projectStatusUpdating \cup {project.id}
              /\ calls' = Append(calls,
                    Call("handleProjectStatusChange", project.id, project.status,
                         updateProjectStatus(project.id, status),
                         IF status = "COMPLETED"
                           THEN Msg("dashboard.projectCompleteSuccess", 0)
                           ELSE Msg("dashboard.projectReopenSuccess", 0)))
    /\ error' = NoMsg
    /\ notice' = NoMsg
    /\ UNCHANGED <<dashVars, storeVars, authVars, loading, deleteVars, assignVars,
                   taskUpdating, server>>

\* what a handler awaits once its request has settled: loadDashboardData()
\* inside the try block after a success, nothing after a failure
AwaitsAfterAction_ReloadsAlways(settledOk) == "load"

AwaitsAfterAction(settledOk) == IF settledOk THEN "load" ELSE "done"

\* the gate of a call is released: the finally block of its handler
ReleaseGate(call) ==
    IF call.handler \in TaskHandlers
      THEN /\ taskUpdating' = taskUpdating \ {call.id}
           /\ UNCHANGED projectStatusUpdating
      ELSE /\ projectStatusUpdating' = projectStatusUpdating \ {call.id}
           /\ UNCHANGED taskUpdating

\* the request of a call has settled and the handler runs on to its next
\* await: loadDashboardData up to its Promise.all, or the end of the handler
ContinueAfterAction(i, settledOk, failure) ==
    IF AwaitsAfterAction(settledOk) = "load"
      THEN /\ loading' = TRUE
           /\ error' = NoMsg
           /\ notice' = NoMsg
           /\ calls' = [calls EXCEPT ![i].pc = "load",
                                     ![i].outcome = IF settledOk THEN "ok" ELSE "failed",
                                     ![i].fetches = @ + 1]
           /\ UNCHANGED updateVars
      ELSE /\ error' = IF settledOk THEN error ELSE failure
           /\ calls' = [calls EXCEPT ![i].pc = "done",
                                     ![i].outcome = IF settledOk THEN "ok" ELSE "failed"]
           /\ ReleaseGate(calls[i])
           /\ UNCHANGED <<loading, notice>>

\* the backend answers a task request: applyTaskDetail, then loadDashboardData
TaskActionResolved ==
    \E i \in DOMAIN calls :
        /\ calls[i].pc = "action"
        /\ calls[i].handler \in TaskHandlers
        /\ ServerHasTask(calls[i].id)
        /\ \E status \in ResponseStatuses(calls[i].request) :
              LET projectId == ServerProjectOf(calls[i].id).id
                  detail == [ServerTask(calls[i].id) EXCEPT !.status = status]
              IN  /\ server' = [server EXCEPT
                        !.admin = MapTasks2(@, projectId, calls[i].id, detail),
                        !.member = MapTasks2(@, projectId, calls[i].id, detail)]
                  /\ admin' = MapTasks2(admin, projectId, calls[i].id, detail)
                  /\ member' = MapTasks2(member, projectId, calls[i].id, detail)
        /\ ContinueAfterAction(i, TRUE, NoMsg)
        /\ UNCHANGED <<tagFilter, projectStatusFilter, taskStatusFilter,
                       archivedProjectIds, filterNow, storeVars, authVars,
                       deleteVars, assignVars>>

\* the backend answers a project-status request: applyProjectOverview, then
\* loadDashboardData
ProjectStatusResolved ==
    \E i \in DOMAIN calls :
        /\ calls[i].pc = "action"
        /\ calls[i].handler = "handleProjectStatusChange"
        /\ ServerHasProject(calls[i].id)
        /\ LET overview ==
                   [ServerProject(calls[i].id) EXCEPT !.status = calls[i].request.operation]
           IN  /\ server' = [server EXCEPT !.admin = MapProject(@, overview),
                                           !.member = MapProject(@, overview)]
               /\ admin' = MapProject(admin, overview)
               /\ member' = MapProject(member, overview)
        /\ ContinueAfterAction(i, TRUE, NoMsg)
        /\ UNCHANGED <<tagFilter, projectStatusFilter, taskStatusFilter,
                       archivedProjectIds, filterNow, storeVars, authVars,
                       deleteVars, assignVars>>

\* the request of updateTask or handleProjectStatusChange fails
ActionRejected ==
    \E i \in DOMAIN calls :
        /\ calls[i].pc = "action"
        /\ calls[i].handler \in TaskHandlers \cup {"handleProjectStatusChange"}
        /\ \E message \in RejectionMessages :
              ContinueAfterAction(i, FALSE,
                  ErrorText(message,
                      IF calls[i].handler \in TaskHandlers
                        THEN Msg("dashboard.updateFailed", 0)
                        ELSE Msg("dashboard.projectStatusUpdateFailed", 0)))
        /\ UNCHANGED <<dashVars, storeVars, authVars, deleteVars, assignVars, server>>

\* loadDashboardData stores an answer: the projects and lists, the archived
\* ids restricted to the returned projects (saved by the effect when they
\* change), the last lists restricted to the returned lists, the list
\* selections restricted to the lists that have a member with a contact. The
\* user selections of the reset tasks are cleared when React has run the
\* updater of the list selections before the test of invalidTaskIds, and are
\* kept when it runs it with the next render.
StoreResponse(data) ==
    LET validIds == {p.id : p \in {(data.admin \o data.member)[a] :
                                      a \in DOMAIN (data.admin \o data.member)}}
        validListIds == {data.lists[l].id : l \in DOMAIN data.lists}
        withMembers == ListsWithMembersIds(data.lists)
        invalidTaskIds == {id \in AllTaskIds : taskListSelections[id] # 0
                                               /\ taskListSelections[id] \notin withMembers}
    IN  /\ admin' = data.admin
        /\ member' = data.member
        /\ lists' = data.lists
        /\ archivedProjectIds' = SelectSeq(archivedProjectIds, LAMBDA id : id \in validIds)
        /\ archiveStorage' = IF archivedProjectIds' = archivedProjectIds
                               THEN archiveStorage
                               ELSE SavedEntry(archivedProjectIds')
        /\ lastListByProject' =
              [id \in ProjectIds |->
                  IF lastListByProject[id] \in validListIds
                    THEN lastListByProject[id] ELSE 0]
        /\ taskListSelections' =
              [id \in AllTaskIds |->
                  IF id \in invalidTaskIds THEN 0 ELSE taskListSelections[id]]
        /\ \/ taskUserSelections' =
                 [id \in AllTaskIds |->
                     IF id \in invalidTaskIds THEN 0 ELSE taskUserSelections[id]]
           \/ UNCHANGED taskUserSelections

\* the answer is what the backend holds when the answer arrives
StoreDashboardData == StoreResponse(server)

\* the re-fetch of updateTask or handleProjectStatusChange is answered:
\* loadDashboardData ends, the handler sets its notice and releases its gate
ReloadResolved ==
    \E i \in DOMAIN calls :
        /\ calls[i].pc = "load"
        /\ calls[i].handler \in TaskHandlers \cup {"handleProjectStatusChange"}
        /\ StoreDashboardData
        /\ loading' = FALSE
        /\ notice' = IF calls[i].outcome = "ok" THEN calls[i].successKey ELSE notice
        /\ ReleaseGate(calls[i])
        /\ calls' = [calls EXCEPT ![i].pc = "done", ![i].reload = "ok"]
        /\ UNCHANGED <<tagFilter, projectStatusFilter, taskStatusFilter, filterNow,
                       loadResult, authVars, error, deleteVars, assigningFromList,
                       server>>

\* the re-fetch fails: loadDashboardData catches the failure and ends, the
\* handler sets its notice and releases its gate
ReloadRejected ==
    \E i \in DOMAIN calls :
        /\ calls[i].pc = "load"
        /\ calls[i].handler \in TaskHandlers \cup {"handleProjectStatusChange"}
        /\ \E message \in RejectionMessages :
              error' = ErrorText(message, Msg("dashboard.loadFailed", 0))
        /\ loading' = FALSE
        /\ notice' = IF calls[i].outcome = "ok" THEN calls[i].successKey ELSE notice
        /\ ReleaseGate(calls[i])
        /\ calls' = [calls EXCEPT ![i].pc = "done", ![i].reload = "failed"]
        /\ UNCHANGED <<dashVars, storeVars, authVars, deleteVars, assignVars, server>>

\* the projects the backend holds for the signed-in user: project 1, which the
\* user administers, and project 2, of which the user is a member, each with
\* one task in any status; the task of project 2 is assigned to the user, to
\* a colleague or to nobody
BoardProjects ==
    {[admin |-> <<Project(1, "ACTIVE", Timestamp("null", 0),
                          <<AssignedTask(11, c.adminStatus, c.adminAssignee)>>)>>,
      member |-> <<Project(2, "ACTIVE", Timestamp("null", 0),
                           <<AssignedTask(21, c.memberStatus, c.memberAssignee)>>)>>,
      lists |-> <<>>] :
        c \in [adminStatus : TaskStatuses, adminAssignee : {NoUser, Colleague},
               memberStatus : TaskStatuses, memberAssignee : {NoUser, Me, Colleague}]}

\* the page after its first loadDashboardData
BoardLoaded ==
    /\ server \in BoardProjects
    /\ admin = server.admin
    /\ member = server.member
    /\ lists = server.lists
    /\ loading = FALSE
    /\ BoardAtDefaults
    /\ tagFilter = <<>>
    /\ projectStatusFilter = "all"
    /\ taskStatusFilter = "all"
    /\ archivedProjectIds = <<>>
    /\ filterNow = FilterClock
    /\ archiveStorage = SavedEntry(archivedProjectIds)
    /\ loadResult = NotLoaded

-----------------------------------------------------------------------------
(* DashboardPage: deleting a project *)

\* `deleting === project.id`
DeletePending(projectId) == deleting = projectId

\* the delete controls renderProjects puts under the admin projects: the
\* delete button, and the confirm and cancel buttons of the project that is
\* being confirmed, each with disabled={deleting === project.id}
DeleteControls ==
    IF ~Rendered THEN {}
    ELSE UNION {{[projectId |-> filteredAdminProjects[a].id, control |-> c,
                  disabled |-> DeletePending(filteredAdminProjects[a].id)] :
                    c \in IF confirming = filteredAdminProjects[a].id
                            THEN {"delete", "confirm", "cancel"} ELSE {"delete"}} :
                a \in DOMAIN filteredAdminProjects}

\* requestDelete
requestDelete ==
    /\ \E c \in DeleteControls :
          /\ c.control = "delete"
          /\ ~c.disabled
          /\ confirming # c.projectId
          /\ confirming' = c.projectId
    /\ notice' = NoMsg
    /\ error' = NoMsg
    /\ UNCHANGED <<dashVars, storeVars, authVars, loading, deleting, assignVars,
                   updateVars, calls, server>>

\* cancelDelete
cancelDelete ==
    /\ \E c \in DeleteControls : c.control = "cancel" /\ ~c.disabled
    /\ confirming' = 0
    /\ UNCHANGED <<dashVars, storeVars, authVars, pageVars, deleting, assignVars,
                   updateVars, calls, server>>

\* handleDelete up to its await: api.deleteProject is called
handleDelete ==
    /\ Len(calls) < MaxDeletes
    /\ \E c \in DeleteControls :
          /\ c.control = "confirm"
          /\ ~c.disabled
          /\ deleting' = c.projectId
          /\ calls' = Append(calls,
                Call("handleDelete", c.projectId, "", deleteProject(c.projectId),
                     Msg("dashboard.deleteSuccess", 0)))
    /\ error' = NoMsg
    /\ notice' = NoMsg
    /\ UNCHANGED <<dashVars, storeVars, authVars, loading, confirming, assignVars,
                   updateVars, server>>

\* the backend has deleted the project: it leaves the admin list, the notice
\* is set, and the finally block clears deleting and confirming
DeleteResolved ==
    \E i \in DOMAIN calls :
        /\ calls[i].handler = "handleDelete"
        /\ calls[i].pc = "action"
        /\ \E a \in DOMAIN server.admin : server.admin[a].id = calls[i].id
        /\ server' = [server EXCEPT
              !.admin = SelectSeq(@, LAMBDA project : project.id # calls[i].id)]
        /\ admin' = SelectSeq(admin, LAMBDA project : project.id # calls[i].id)
        /\ notice' = calls[i].successKey
        /\ deleting' = 0
        /\ confirming' = 0
        /\ calls' = [calls EXCEPT ![i].pc = "done", ![i].outcome = "ok"]
        /\ UNCHANGED <<member, tagFilter, projectStatusFilter, taskStatusFilter,
                       archivedProjectIds, filterNow, storeVars, authVars, loading,
                       error, assignVars, updateVars>>

\* the delete request fails: the error is set, and the finally block clears
\* deleting and confirming
DeleteRejected ==
    \E i \in DOMAIN calls :
        /\ calls[i].handler = "handleDelete"
        /\ calls[i].pc = "action"
        /\ \E message \in RejectionMessages :
              error' = ErrorText(message, Msg("dashboard.deleteFailed", 0))
        /\ deleting' = 0
        /\ confirming' = 0
        /\ calls' = [calls EXCEPT ![i].pc = "done", ![i].outcome = "failed"]
        /\ UNCHANGED <<dashVars, storeVars, authVars, loading, notice, assignVars,
                       updateVars, server>>

\* the page of a user who administers every project and is member of none
BoardOfAdmin ==
    /\ server = [admin |-> [p \in ProjectIds |->
                               Project(p, "ACTIVE", Timestamp("null", 0),
                                       <<AssignedTask(10 * p + 1, "NEW", NoUser)>>)],
                 member |-> <<>>, lists |-> <<>>]
    /\ admin = server.admin
    /\ member = server.member
    /\ lists = server.lists
    /\ loading = FALSE
    /\ BoardAtDefaults
    /\ tagFilter = <<>>
    /\ projectStatusFilter = "all"
    /\ taskStatusFilter = "all"
    /\ archivedProjectIds = <<>>
    /\ filterNow = FilterClock
    /\ archiveStorage = SavedEntry(archivedProjectIds)
    /\ loadResult = NotLoaded

-----------------------------------------------------------------------------
(* DashboardPage and TasksList: assigning a task from a colleague list *)

\* api.assignColleagueToTask(colleagueId, taskId):
\* POST /colleagues/:colleagueId/assign-task with the task in the body
assignColleagueToTask(colleagueId, taskId) ==
    [method |-> "POST", resource |-> "colleagues", id |-> colleagueId,
     operation |-> "assign-task", taskId |-> taskId]

\* a member of a colleague list: the colleague's id and the id of the user
\* the colleague registered as, NoUser for `contact: null`
ListMember(colleagueId, contact) == [colleagueId |-> colleagueId, contact |-> contact]

\* the user a colleague registers as
UserOfColleague(colleagueId) == IF colleagueId = 5 THEN Colleague ELSE 3

\* `member.colleague?.contact` is truthy
HasContact_Always(listMember) == TRUE

HasContact(listMember) == listMember.contact # NoUser

\* lists.filter((list) => list.members.some((member) => member.colleague?.contact))
listsWithMembers ==
    SelectSeq(lists, LAMBDA list :
        \E m \in DOMAIN list.members : HasContact(list.members[m]))

\* TasksList: the lists it offers; filtering listsWithMembers again changes
\* nothing
availableLists ==
    SelectSeq(listsWithMembers, LAMBDA list :
        \E m \in DOMAIN list.members : HasContact(list.members[m]))

\* TasksList: the last selected list of the project first, when it is still
\* offered
orderedLists(projectId) ==
    LET lastSelectedListId == lastListByProject[projectId]
        found == SelectSeq(availableLists, LAMBDA list : list.id = lastSelectedListId)
    IN  IF lastSelectedListId # 0 /\ found # <<>>
          THEN <<found[1]>> \o SelectSeq(availableLists,
                                         LAMBDA list : list.id # found[1].id)
          ELSE availableLists

\* TasksList: the list selection of a task, '' (0) unless it is an offered list
ValidListId(projectId, taskId) ==
    LET rawListId == taskListSelections[taskId]
    IN  IF rawListId # 0
           /\ \E l \in DOMAIN orderedLists(projectId) :
                 orderedLists(projectId)[l].id = rawListId
          THEN rawListId ELSE 0

\* TasksList.getMembers: the members with a contact of the first offered list
\* that has the id
getMembers(listId) ==
    LET found == SelectSeq(availableLists, LAMBDA list : list.id = listId)
    IN  IF listId = 0 \/ found = <<>> THEN <<>>
        ELSE SelectSeq(found[1].members, HasContact)

\* TasksList: the user selection of a task, '' (0) unless it is a member option
ValidSelectedUser(projectId, taskId) ==
    LET memberOptions == getMembers(ValidListId(projectId, taskId))
        rawSelectedUser == taskUserSelections[taskId]
    IN  IF rawSelectedUser # 0
           /\ \E m \in DOMAIN memberOptions :
                 memberOptions[m].colleagueId = rawSelectedUser
          THEN rawSelectedUser ELSE 0

\* the assignment block TasksList renders under every unassigned task of an
\* admin project that is not archived: the options of its two selects and the
\* disabled flags of the selects and of the assign button
AssignControls ==
    IF ~Rendered THEN {}
    ELSE {[projectId |-> filteredAdminProjects[slot[1]].id,
           taskId |-> filteredAdminProjects[slot[1]].tasks[slot[2]].id,
           listOptions |->
               {orderedLists(filteredAdminProjects[slot[1]].id)[l].id :
                   l \in DOMAIN orderedLists(filteredAdminProjects[slot[1]].id)},
           listDisabled |->
               \/ filteredAdminProjects[slot[1]].tasks[slot[2]].id \in assigningFromList
               \/ orderedLists(filteredAdminProjects[slot[1]].id) = <<>>,
           userOptions |->
               LET memberOptions ==
                       getMembers(ValidListId(filteredAdminProjects[slot[1]].id,
                                     filteredAdminProjects[slot[1]].tasks[slot[2]].id))
               IN  {memberOptions[m].colleagueId :
                       m \in {x \in DOMAIN memberOptions : HasContact(memberOptions[x])}},
           userDisabled |->
               \/ ValidListId(filteredAdminProjects[slot[1]].id,
                              filteredAdminProjects[slot[1]].tasks[slot[2]].id) = 0
               \/ getMembers(ValidListId(filteredAdminProjects[slot[1]].id,
                                filteredAdminProjects[slot[1]].tasks[slot[2]].id)) = <<>>
               \/ filteredAdminProjects[slot[1]].tasks[slot[2]].id \in assigningFromList,
           assignDisabled |->
               \/ ValidListId(filteredAdminProjects[slot[1]].id,
                              filteredAdminProjects[slot[1]].tasks[slot[2]].id) = 0
               \/ ValidSelectedUser(filteredAdminProjects[slot[1]].id,
                                    filteredAdminProjects[slot[1]].tasks[slot[2]].id) = 0
               \/ filteredAdminProjects[slot[1]].tasks[slot[2]].id \in assigningFromList] :
             slot \in {s \in TaskSlots(filteredAdminProjects) :
                 /\ ~Includes(archivedProjectIds, filteredAdminProjects[s[1]].id)
                 /\ filteredAdminProjects[s[1]].tasks[s[2]].assignedTo = NoUser}}

\* handleListChange, from the list select of a task
handleListChange ==
    /\ \E c \in AssignControls :
          /\ ~c.listDisabled
          /\ \E listId \in {0} \cup c.listOptions :
                /\ listId # ValidListId(c.projectId, c.taskId)
                /\ taskListSelections' = [taskListSelections EXCEPT ![c.taskId] = listId]
                /\ taskUserSelections' = [taskUserSelections EXCEPT ![c.taskId] = 0]
    /\ UNCHANGED <<dashVars, storeVars, authVars, pageVars, deleteVars, lists,
                   assigningFromList, lastListByProject, updateVars, calls, server>>

\* handleUserChange, from the person select of a task
handleUserChange ==
    /\ \E c \in AssignControls :
          /\ ~c.userDisabled
          /\ \E colleagueId \in {0} \cup c.userOptions :
                /\ colleagueId # ValidSelectedUser(c.projectId, c.taskId)
                /\ taskUserSelections' =
                      [taskUserSelections EXCEPT ![c.taskId] = colleagueId]
    /\ UNCHANGED <<dashVars, storeVars, authVars, pageVars, deleteVars, lists,
                   taskListSelections, assigningFromList, lastListByProject,
                   updateVars, calls, server>>

\* handleAssignFromList up to its await: it reads the selections of the task
\* from the state, returns when one is empty, and calls
\* api.assignColleagueToTask otherwise
handleAssignFromList ==
    /\ Len(calls) < MaxCalls
    /\ \E c \in AssignControls :
          LET colleagueId == taskUserSelections[c.taskId]
              listId == taskListSelections[c.taskId]
          IN  /\ ~c.assignDisabled
              /\ colleagueId # 0
              /\ listId # 0
              /\ assigningFromList' = assigningFromList \cup {c.taskId}
              /\ calls' = Append(calls,
                    [Call("handleAssignFromList", c.taskId, "",
                          assignColleagueToTask(colleagueId, c.taskId),
                          Msg("dashboard.assignSuccess", 0))
                       EXCEPT !.projectId = c.projectId, !.listId = listId])
    /\ error' = NoMsg
    /\ notice' = NoMsg
    /\ UNCHANGED <<dashVars, storeVars, authVars, loading, deleteVars, lists,
                   taskListSelections, taskUserSelections, lastListByProject,
                   updateVars, server>>

\* the user the backend holds as the contact of a colleague, NoUser when the
\* colleague has not registered or is in no list
ServerContact(colleagueId) ==
    LET found == {m \in UNION {{server.lists[l].members[k] :
                                   k \in DOMAIN server.lists[l].members} :
                               l \in DOMAIN server.lists} :
                     m.colleagueId = colleagueId}
    IN  IF found = {} THEN NoUser ELSE (CHOOSE m \in found : TRUE).contact

\* the backend has assigned the task to the colleague's contact:
\* updateTaskAssignment, then loadDashboardData up to its Promise.all
AssignResolved ==
    \E i \in DOMAIN calls :
        /\ calls[i].handler = "handleAssignFromList"
        /\ calls[i].pc = "action"
        /\ ServerContact(calls[i].request.id) # NoUser
        /\ \E a \in DOMAIN server.admin : server.admin[a].id = calls[i].projectId
        /\ LET assignedUser == ServerContact(calls[i].request.id)
               projectId == ServerProjectOf(calls[i].id).id
               detail == [ServerTask(calls[i].id) EXCEPT !.assignedTo = assignedUser]
               shown == [k \in DOMAIN admin |->
                           [admin[k] EXCEPT !.tasks =
                              [t \in DOMAIN admin[k].tasks |->
                                 IF admin[k].id = calls[i].projectId
                                    /\ admin[k].tasks[t].id = calls[i].id
                                   THEN [admin[k].tasks[t] EXCEPT
                                            !.assignedTo = assignedUser]
                                   ELSE admin[k].tasks[t]]]]
           IN  /\ server' = [server EXCEPT
                     !.admin = MapTasks2(@, projectId, calls[i].id, detail)]
               /\ admin' = shown
        /\ loading' = TRUE
        /\ error' = NoMsg
        /\ notice' = NoMsg
        /\ calls' = [calls EXCEPT ![i].pc = "load", ![i].outcome = "ok",
                                  ![i].fetches = @ + 1]
        /\ UNCHANGED <<member, tagFilter, projectStatusFilter, taskStatusFilter,
                       archivedProjectIds, filterNow, storeVars, authVars,
                       deleteVars, assignVars, updateVars>>

\* the answer has no assigned user: the error is set and the handler returns
\* through its finally block
AssignUnconfirmed ==
    \E i \in DOMAIN calls :
        /\ calls[i].handler = "handleAssignFromList"
        /\ calls[i].pc = "action"
        /\ ServerContact(calls[i].request.id) = NoUser
        /\ error' = Msg("dashboard.assignFailed", 0)
        /\ assigningFromList' = assigningFromList \ {calls[i].id}
        /\ calls' = [calls EXCEPT ![i].pc = "done", ![i].outcome = "failed"]
        /\ UNCHANGED <<dashVars, storeVars, authVars, loading, notice, deleteVars,
                       lists, taskListSelections, taskUserSelections,
                       lastListByProject, updateVars, server>>

\* the assign request fails
AssignRejected ==
    \E i \in DOMAIN calls :
        /\ calls[i].handler = "handleAssignFromList"
        /\ calls[i].pc = "action"
        /\ \E message \in RejectionMessages :
              error' = ErrorText(message, Msg("dashboard.assignFailed", 0))
        /\ assigningFromList' = assigningFromList \ {calls[i].id}
        /\ calls' = [calls EXCEPT ![i].pc = "done", ![i].outcome = "failed"]
        /\ UNCHANGED <<dashVars, storeVars, authVars, loading, notice, deleteVars,
                       lists, taskListSelections, taskUserSelections,
                       lastListByProject, updateVars, server>>

\* the rest of handleAssignFromList after loadDashboardData has ended: the
\* list is remembered for the project, the selections of the task are
\* cleared, the notice is set and the finally block releases the task
AfterAssignReload(call, taskLists, userSelections, lastLists) ==
    /\ lastListByProject' = [lastLists EXCEPT ![call.projectId] = call.listId]
    /\ taskListSelections' = [taskLists EXCEPT ![call.id] = 0]
    /\ taskUserSelections' = [userSelections EXCEPT ![call.id] = 0]
    /\ notice' = call.successKey
    /\ assigningFromList' = assigningFromList \ {call.id}

\* the re-fetch of handleAssignFromList is answered
AssignReloadResolved ==
    \E i \in DOMAIN calls :
        /\ calls[i].handler = "handleAssignFromList"
        /\ calls[i].pc = "load"
        /\ LET validIds == {p.id : p \in {ServerAll[a] : a \in DOMAIN ServerAll}}
               validListIds == {server.lists[l].id : l \in DOMAIN server.lists}
               withMembers == ListsWithMembersIds(server.lists)
               invalidTaskIds == {id \in AllTaskIds :
                                     /\ taskListSelections[id] # 0
                                     /\ taskListSelections[id] \notin withMembers}
               prunedLists == [id \in AllTaskIds |->
                                  IF id \in invalidTaskIds THEN 0
                                  ELSE taskListSelections[id]]
               prunedUsers == [id \in AllTaskIds |->
                                  IF id \in invalidTaskIds THEN 0
                                  ELSE taskUserSelections[id]]
               prunedLast == [id \in ProjectIds |->
                                 IF lastListByProject[id] \in validListIds
                                   THEN lastListByProject[id] ELSE 0]
           IN  /\ admin' = server.admin
               /\ member' = server.member
               /\ lists' = server.lists
               /\ archivedProjectIds' =
                     SelectSeq(archivedProjectIds, LAMBDA id : id \in validIds)
               /\ archiveStorage' = IF archivedProjectIds' = archivedProjectIds
                                      THEN archiveStorage
                                      ELSE SavedEntry(archivedProjectIds')
               /\ \E users \in {prunedUsers, taskUserSelections} :
                     AfterAssignReload(calls[i], prunedLists, users, prunedLast)
        /\ loading' = FALSE
        /\ calls' = [calls EXCEPT ![i].pc = "done", ![i].reload = "ok"]
        /\ UNCHANGED <<tagFilter, projectStatusFilter, taskStatusFilter, filterNow,
                       loadResult, authVars, error, deleteVars, updateVars, server>>

\* the re-fetch of handleAssignFromList fails: loadDashboardData catches the
\* failure and the handler runs on
AssignReloadRejected ==
    \E i \in DOMAIN calls :
        /\ calls[i].handler = "handleAssignFromList"
        /\ calls[i].pc = "load"
        /\ \E message \in RejectionMessages :
              error' = ErrorText(message, Msg("dashboard.loadFailed", 0))
        /\ AfterAssignReload(calls[i], taskListSelections, taskUserSelections,
                             lastListByProject)
        /\ loading' = FALSE
        /\ calls' = [calls EXCEPT ![i].pc = "done", ![i].reload = "failed"]
        /\ UNCHANGED <<dashVars, storeVars, authVars, deleteVars, lists,
                       updateVars, server>>

\* the projects of a user who administers two projects, each with one open,
\* unassigned task
TwoAdminProjects ==
    << Project(1, "ACTIVE", Timestamp("null", 0), <<AssignedTask(11, "NEW", NoUser)>>),
       Project(2, "ACTIVE", Timestamp("null", 0), <<AssignedTask(21, "NEW", NoUser)>>) >>

\* a colleague list
ColleagueList(id, members) == [id |-> id, members |-> members]

\* the colleague lists the backend may hold: colleague 5 registered and 6
\* not; 6 registered and the account of 5 removed; both registered
ListCatalog ==
    { << ColleagueList(1, <<ListMember(5, UserOfColleague(5)), ListMember(6, NoUser)>>),
         ColleagueList(2, <<ListMember(6, NoUser)>>) >>,
      << ColleagueList(1, <<ListMember(5, NoUser), ListMember(6, UserOfColleague(6))>>),
         ColleagueList(2, <<ListMember(6, UserOfColleague(6))>>) >>,
      << ColleagueList(1, <<ListMember(5, UserOfColleague(5))>>),
         ColleagueList(2, <<ListMember(5, UserOfColleague(5)),
                            ListMember(6, UserOfColleague(6))>>) >> }

\* the lists of the backend change: colleagues register, accounts are
\* removed, members are moved between lists
ListsEdited ==
    /\ \E listData \in ListCatalog \ {server.lists} :
          server' = [server EXCEPT !.lists = listData]
    /\ UNCHANGED <<dashVars, storeVars, authVars, pageVars, deleteVars, assignVars,
                   updateVars, calls>>

\* the page of a user who administers two projects, after its first
\* loadDashboardData
AssignBoardLoaded ==
    /\ server \in {[admin |-> TwoAdminProjects, member |-> <<>>, lists |-> listData] :
                      listData \in ListCatalog}
    /\ admin = server.admin
    /\ member = server.member
    /\ lists = server.lists
    /\ loading = FALSE
    /\ BoardAtDefaults
    /\ tagFilter = <<>>
    /\ projectStatusFilter = "all"
    /\ taskStatusFilter = "all"
    /\ archivedProjectIds = <<>>
    /\ filterNow = FilterClock
    /\ archiveStorage = SavedEntry(archivedProjectIds)
    /\ loadResult = NotLoaded

-----------------------------------------------------------------------------
(* ParticipantsPage: assigning a project or a task to a colleague *)

\* the colleagues of the user
ColleagueIds == {5, 6}

NoColleagueSelections == [id \in ColleagueIds |-> 0]

\* the page not mounted: the useState defaults
ParticipantsUnmounted ==
    /\ colleagues = <<>>
    /\ participantProjects = <<>>
    /\ projectTasks = <<>>
    /\ participantsLoading = TRUE
    /\ participantsError = NoMsg
    /\ participantsNotice = NoMsg
    /\ projectSelections = NoColleagueSelections
    /\ assigningProject = {}
    /\ taskProjectSelections = NoColleagueSelections
    /\ taskSelections = NoColleagueSelections
    /\ assigningTask = {}
    /\ participantCalls = <<>>
    /\ directory = <<>>

\* a Colleague: the user the colleague registered as (NoUser for
\* `contact: null`) and the ids of the projects assigned to the colleague
ColleagueRecord(id, contact, assignedProjects) ==
    [id |-> id, contact |-> contact, assignedProjects |-> assignedProjects]

\* api.assignColleagueToProject(colleagueId, projectId):
\* POST /colleagues/:colleagueId/assign-project with the project in the body
assignColleagueToProject(colleagueId, projectId) ==
    [method |-> "POST", resource |-> "colleagues", id |-> colleagueId,
     operation |-> "assign-project", projectId |-> projectId]

\* api.tasksByProject(projectId): GET /tasks/project/:projectId
tasksByProject(projectId) ==
    [method |-> "GET", resource |-> "tasks/project", id |-> projectId,
     operation |-> ""]

\* a handler invocation of the page: the colleague of the card, the project
\* the handler read from the selections, the request in flight and the
\* promise the handler awaits ("action", then "tasks", then "done")
ParticipantCall(handler, colleagueId, projectId, request, pc) ==
    [handler |-> handler, colleagueId |-> colleagueId, projectId |-> projectId,
     request |-> request, pc |-> pc, outcome |-> ""]

\* `registered = Boolean(colleague.contact)`
registered(colleague) == colleague.contact # NoUser

\* availableProjectsByColleague[colleague.id]: the projects not yet assigned
\* to the colleague
availableProjects(colleague) ==
    SelectSeq(participantProjects,
              LAMBDA project : project.id \notin colleague.assignedProjects)

\* the tasks of the project selected for the colleague that are unassigned or
\* assigned to the colleague's user
filteredTasks(colleague) ==
    LET taskProjectId == taskProjectSelections[colleague.id]
        tasksForProject == IF taskProjectId # 0 /\ taskProjectId \in DOMAIN projectTasks
                             THEN projectTasks[taskProjectId] ELSE <<>>
    IN  SelectSeq(tasksForProject, LAMBDA task :
            \/ task.assignedTo = NoUser
            \/ OptionalId(task.assignedTo) = OptionalId(colleague.contact))

\* the assignment controls of the colleague cards, each with its disabled flag
\* and the values it offers
ParticipantControls ==
    IF participantsLoading THEN {}
    ELSE UNION {
        {[colleagueId |-> colleagues[c].id, control |-> "projectSelect",
          options |-> {availableProjects(colleagues[c])[a].id :
                          a \in DOMAIN availableProjects(colleagues[c])},
          disabled |-> \/ ~registered(colleagues[c])
                       \/ availableProjects(colleagues[c]) = <<>>
                       \/ colleagues[c].id \in assigningProject],
         [colleagueId |-> colleagues[c].id, control |-> "assignProject",
          options |-> {},
          disabled |-> \/ ~registered(colleagues[c])
                       \/ projectSelections[colleagues[c].id] = 0
                       \/ colleagues[c].id \in assigningProject],
         [colleagueId |-> colleagues[c].id, control |-> "taskProjectSelect",
          options |-> {participantProjects[a].id : a \in DOMAIN participantProjects},
          disabled |-> \/ ~registered(colleagues[c])
                       \/ participantProjects = <<>>
                       \/ colleagues[c].id \in assigningTask],
         [colleagueId |-> colleagues[c].id, control |-> "taskSelect",
          options |-> {filteredTasks(colleagues[c])[k].id :
                          k \in DOMAIN filteredTasks(colleagues[c])},
          disabled |-> \/ ~registered(colleagues[c])
                       \/ taskProjectSelections[colleagues[c].id] = 0
                       \/ filteredTasks(colleagues[c]) = <<>>
                       \/ colleagues[c].id \in assigningTask],
         [colleagueId |-> colleagues[c].id, control |-> "assignTask",
          options |-> {},
          disabled |-> \/ ~registered(colleagues[c])
                       \/ taskSelections[colleagues[c].id] = 0
                       \/ colleagues[c].id \in assigningTask]} :
        c \in DOMAIN colleagues}

\* prev.map((item) => (item.id === response.id ? response : item))
ReplaceColleague(prev, response) ==
    [c \in DOMAIN prev |-> IF prev[c].id = response.id THEN response ELSE prev[c]]

\* the colleague of the backend with the id
DirectoryEntry(colleagueId) ==
    directory[CHOOSE c \in DOMAIN directory : directory[c].id = colleagueId]

\* onChange of the project select of a card
SetProjectSelection ==
    /\ \E c \in ParticipantControls :
          /\ c.control = "projectSelect"
          /\ ~c.disabled
          /\ \E projectId \in {0} \cup c.options :
                /\ projectId # projectSelections[c.colleagueId]
                /\ projectSelections' =
                      [projectSelections EXCEPT ![c.colleagueId] = projectId]
    /\ UNCHANGED <<colleagues, participantProjects, projectTasks,
                   participantsLoading, participantsError, participantsNotice,
                   assigningProject, taskProjectSelections, taskSelections,
                   assigningTask, participantCalls, directory, server>>

\* handleAssignProject up to its await
handleAssignProject ==
    /\ Len(participantCalls) < MaxCalls
    /\ \E c \in ParticipantControls :
          LET projectId == projectSelections[c.colleagueId]
          IN  /\ c.control = "assignProject"
              /\ ~c.disabled
              /\ projectId # 0
              /\ assigningProject' = assigningProject \cup {c.colleagueId}
              /\ participantCalls' = Append(participantCalls,
                    ParticipantCall("handleAssignProject", c.colleagueId, projectId,
                        assignColleagueToProject(c.colleagueId, projectId), "action"))
    /\ participantsError' = NoMsg
    /\ participantsNotice' = NoMsg
    /\ UNCHANGED <<colleagues, participantProjects, projectTasks,
                   participantsLoading, projectSelections, taskProjectSelections,
                   taskSelections, assigningTask, directory, server>>

\* the backend has assigned the project and answers with the colleague
AssignProjectResolved ==
    \E i \in DOMAIN participantCalls :
        /\ participantCalls[i].handler = "handleAssignProject"
        /\ participantCalls[i].pc = "action"
        /\ DirectoryEntry(participantCalls[i].colleagueId).contact # NoUser
        /\ LET response ==
                   [DirectoryEntry(participantCalls[i].colleagueId) EXCEPT
                       !.assignedProjects = @ \cup {participantCalls[i].projectId}]
           IN  /\ directory' = ReplaceColleague(directory, response)
               /\ colleagues' = ReplaceColleague(colleagues, response)
        /\ projectSelections' =
              [projectSelections EXCEPT ![participantCalls[i].colleagueId] = 0]
        /\ participantsNotice' = Msg("participants.successAssignProject", 0)
        /\ assigningProject' = assigningProject \ {participantCalls[i].colleagueId}
        /\ participantCalls' = [participantCalls EXCEPT ![i].pc = "done",
                                                        ![i].outcome = "ok"]
        /\ UNCHANGED <<participantProjects, projectTasks, participantsLoading,
                       participantsError, taskProjectSelections, taskSelections,
                       assigningTask, server>>

\* the assign-project request fails
AssignProjectRejected ==
    \E i \in DOMAIN participantCalls :
        /\ participantCalls[i].handler = "handleAssignProject"
        /\ participantCalls[i].pc = "action"
        /\ \E message \in RejectionMessages :
              participantsError' =
                  ErrorText(message, Msg("participants.errors.assignProjectFailed", 0))
        /\ assigningProject' = assigningProject \ {participantCalls[i].colleagueId}
        /\ participantCalls' = [participantCalls EXCEPT ![i].pc = "done",
                                                        ![i].outcome = "failed"]
        /\ UNCHANGED <<colleagues, participantProjects, projectTasks,
                       participantsLoading, participantsNotice, projectSelections,
                       taskProjectSelections, taskSelections, assigningTask,
                       directory, server>>

\* handleTaskProjectChange up to its await: the selections are set, and
\* ensureProjectTasks fetches the tasks of a project that has none loaded
handleTaskProjectChange ==
    /\ \E c \in ParticipantControls :
          /\ c.control = "taskProjectSelect"
          /\ ~c.disabled
          /\ \E projectId \in {0} \cup c.options :
                /\ projectId # taskProjectSelections[c.colleagueId]
                /\ taskProjectSelections' =
                      [taskProjectSelections EXCEPT ![c.colleagueId] = projectId]
                /\ taskSelections' = [taskSelections EXCEPT ![c.colleagueId] = 0]
                /\ IF projectId # 0 /\ projectId \notin DOMAIN projectTasks
                     THEN /\ Len(participantCalls) < MaxCalls
                          /\ participantCalls' = Append(participantCalls,
                                ParticipantCall("handleTaskProjectChange",
                                    c.colleagueId, projectId,
                                    tasksByProject(projectId), "tasks"))
                     ELSE UNCHANGED participantCalls
    /\ UNCHANGED <<colleagues, participantProjects, projectTasks,
                   participantsLoading, participantsError, participantsNotice,
                   projectSelections, assigningProject, assigningTask, directory,
                   server>>

\* onChange of the task select of a card
SetTaskSelection ==
    /\ \E c \in ParticipantControls :
          /\ c.control = "taskSelect"
          /\ ~c.disabled
          /\ \E taskId \in {0} \cup c.options :
                /\ taskId # taskSelections[c.colleagueId]
                /\ taskSelections' = [taskSelections EXCEPT ![c.colleagueId] = taskId]
    /\ UNCHANGED <<colleagues, participantProjects, projectTasks,
                   participantsLoading, participantsError, participantsNotice,
                   projectSelections, assigningProject, taskProjectSelections,
                   assigningTask, participantCalls, directory, server>>

\* handleAssignTask up to its await
handleAssignTask ==
    /\ Len(participantCalls) < MaxCalls
    /\ \E c \in ParticipantControls :
          LET projectId == taskProjectSelections[c.colleagueId]
              taskId == taskSelections[c.colleagueId]
          IN  /\ c.control = "assignTask"
              /\ ~c.disabled
              /\ projectId # 0
              /\ taskId # 0
              /\ assigningTask' = assigningTask \cup {c.colleagueId}
              /\ participantCalls' = Append(participantCalls,
                    ParticipantCall("handleAssignTask", c.colleagueId, projectId,
                        assignColleagueToTask(c.colleagueId, taskId), "action"))
    /\ participantsError' = NoMsg
    /\ participantsNotice' = NoMsg
    /\ UNCHANGED <<colleagues, participantProjects, projectTasks,
                   participantsLoading, projectSelections, assigningProject,
                   taskProjectSelections, taskSelections, directory, server>>

\* the backend has assigned the task and answers with the colleague: the
\* colleague is replaced, the task selection cleared, and the tasks of the
\* project are fetched again
AssignTaskResolved ==
    \E i \in DOMAIN participantCalls :
        /\ participantCalls[i].handler = "handleAssignTask"
        /\ participantCalls[i].pc = "action"
        /\ DirectoryEntry(participantCalls[i].colleagueId).contact # NoUser
        /\ LET taskId == participantCalls[i].request.taskId
               detail == [ServerTask(taskId) EXCEPT !.assignedTo =
                             DirectoryEntry(participantCalls[i].colleagueId).contact]
           IN  server' = [server EXCEPT
                   !.admin = MapTasks2(@, ServerProjectOf(taskId).id, taskId, detail)]
        /\ colleagues' = ReplaceColleague(colleagues,
                             DirectoryEntry(participantCalls[i].colleagueId))
        /\ taskSelections' = [taskSelections EXCEPT ![participantCalls[i].colleagueId] = 0]
        /\ participantCalls' = [participantCalls EXCEPT ![i].pc = "tasks",
                                                        ![i].outcome = "ok"]
        /\ UNCHANGED <<participantProjects, projectTasks, participantsLoading,
                       participantsError, participantsNotice, projectSelections,
                       assigningProject, taskProjectSelections, assigningTask,
                       directory>>

\* the assign-task request fails
AssignTaskRejected ==
    \E i \in DOMAIN participantCalls :
        /\ participantCalls[i].handler = "handleAssignTask"
        /\ participantCalls[i].pc = "action"
        /\ \E message \in RejectionMessages :
              participantsError' =
                  ErrorText(message, Msg("participants.errors.assignTaskFailed", 0))
        /\ assigningTask' = assigningTask \ {participantCalls[i].colleagueId}
        /\ participantCalls' = [participantCalls EXCEPT ![i].pc = "done",
                                                        ![i].outcome = "failed"]
        /\ UNCHANGED <<colleagues, participantProjects, projectTasks,
                       participantsLoading, participantsNotice, projectSelections,
                       assigningProject, taskProjectSelections, taskSelections,
                       directory, server>>

\* setProjectTasks((prev) => ({ ...prev, [projectId]: data }))
WithProjectTasks(prev, projectId, data) ==
    [id \in DOMAIN prev \cup {projectId} |-> IF id = projectId THEN data ELSE prev[id]]

\* api.tasksByProject is answered: ensureProjectTasks stores the tasks, and
\* handleAssignTask sets its notice and releases the colleague
ProjectTasksResolved ==
    \E i \in DOMAIN participantCalls :
        /\ participantCalls[i].pc = "tasks"
        /\ projectTasks' = WithProjectTasks(projectTasks, participantCalls[i].projectId,
                               ServerProject(participantCalls[i].projectId).tasks)
        /\ IF participantCalls[i].handler = "handleAssignTask"
             THEN /\ participantsNotice' = Msg("participants.successAssignTask", 0)
                  /\ assigningTask' = assigningTask \ {participantCalls[i].colleagueId}
             ELSE UNCHANGED <<participantsNotice, assigningTask, server>>
        /\ participantCalls' = [participantCalls EXCEPT ![i].pc = "done"]
        /\ UNCHANGED <<colleagues, participantProjects, participantsLoading,
                       participantsError, projectSelections, assigningProject,
                       taskProjectSelections, taskSelections, directory,
                       server>>

\* api.tasksByProject fails: handleTaskProjectChange ignores the failure,
\* handleAssignTask sets the error and releases the colleague
ProjectTasksRejected ==
    \E i \in DOMAIN participantCalls :
        /\ participantCalls[i].pc = "tasks"
        /\ IF participantCalls[i].handler = "handleAssignTask"
             THEN /\ \E message \in RejectionMessages :
                        participantsError' = ErrorText(message,
                            Msg("participants.errors.assignTaskFailed", 0))
                  /\ assigningTask' = assigningTask \ {participantCalls[i].colleagueId}
             ELSE UNCHANGED <<participantsError, assigningTask, server>>
        /\ participantCalls' = [participantCalls EXCEPT ![i].pc = "done"]
        /\ UNCHANGED <<colleagues, participantProjects, projectTasks,
                       participantsLoading, participantsNotice, projectSelections,
                       assigningProject, taskProjectSelections, taskSelections,
                       directory, server>>

\* a colleague registers: the backend's contact of the colleague is set
ColleagueRegisters ==
    /\ \E c \in DOMAIN directory :
          /\ directory[c].contact = NoUser
          /\ directory' = [directory EXCEPT
                               ![c].contact = UserOfColleague(directory[c].id)]
    /\ UNCHANGED <<colleagues, participantProjects, projectTasks,
                   participantsLoading, participantsError, participantsNotice,
                   projectSelections, assigningProject, taskProjectSelections,
                   taskSelections, assigningTask, participantCalls, server>>

\* the page after its initial load: the user administers one project with one
\* task, and has two colleagues, each registered or not
ParticipantsLoaded ==
    /\ directory \in {<<ColleagueRecord(5, c[1], {}), ColleagueRecord(6, c[2], {})>> :
                         c \in {NoUser, UserOfColleague(5)}
                               \X {NoUser, UserOfColleague(6)}}
    /\ server \in {[admin |-> <<Project(1, "ACTIVE", Timestamp("null", 0),
                                          <<AssignedTask(11, "NEW", assignedTo)>>)>>,
                    member |-> <<>>, lists |-> <<>>] :
                      assignedTo \in {NoUser, UserOfColleague(5)}}
    /\ colleagues = directory
    /\ participantProjects = server.admin
    /\ projectTasks = <<>>
    /\ participantsLoading = FALSE
    /\ participantsError = NoMsg
    /\ participantsNotice = NoMsg
    /\ projectSelections = NoColleagueSelections
    /\ assigningProject = {}
    /\ taskProjectSelections = NoColleagueSelections
    /\ taskSelections = NoColleagueSelections
    /\ assigningTask = {}
    /\ participantCalls = <<>>

-----------------------------------------------------------------------------
(* AuthProvider, ProtectedRoute and the sign-in pages *)

\* the users the backend knows
Identities == {Me, Colleague}

\* the routes under <Route element={<ProtectedRoute />}> and the public ones
ProtectedPaths == {"/dashboard", "/participants"}

PublicPaths == {"/", "/login", "/register"}

\* a request of the session store: in flight ("pending"), then "ok" with the
\* identity of the answer, or "failed"
AuthCall(endpoint) == [endpoint |-> endpoint, pc |-> "pending", identity |-> NoUser]

\* the indices of the requests in flight to an endpoint
PendingCalls(endpoints) ==
    {i \in DOMAIN authCalls : authCalls[i].endpoint \in endpoints
                              /\ authCalls[i].pc = "pending"}

\* what ProtectedRoute returns: null while loading, <Navigate to="/login">
\* without a user, the <Outlet /> otherwise
ProtectedRoute_IgnoresLoading == IF user = NoUser THEN "navigate" ELSE "outlet"

ProtectedRoute ==
    IF authLoading THEN "null"
    ELSE IF user = NoUser THEN "navigate"
    ELSE "outlet"

\* how often a build runs the effect of a component at its mount: once, and
\* twice under <StrictMode> in a development build
EffectRuns == {1, 2}

\* the start-up effect of AuthProvider: refresh() up to its await when a
\* token is stored, setLoading(false) otherwise
MountEffect ==
    /\ ~mounted
    /\ mounted' = TRUE
    /\ IF token
         THEN /\ \E runs \in EffectRuns :
                    authCalls' = authCalls \o [k \in 1..runs |-> AuthCall("/auth/me")]
              /\ UNCHANGED authLoading
         ELSE /\ authLoading' = FALSE
              /\ UNCHANGED authCalls
    /\ UNCHANGED <<token, user, location>>

\* api.me() is answered with the identity of the token: refresh stores it
MeResolved ==
    /\ \E i \in PendingCalls({"/auth/me"}) : \E me \in Identities :
          /\ user' = me
          /\ authCalls' = [authCalls EXCEPT ![i].pc = "ok", ![i].identity = me]
    /\ authLoading' = FALSE
    /\ UNCHANGED <<token, mounted, location>>

\* api.me() fails: refresh clears the user
MeRejected ==
    /\ \E i \in PendingCalls({"/auth/me"}) :
          authCalls' = [authCalls EXCEPT ![i].pc = "failed"]
    /\ user' = NoUser
    /\ authLoading' = FALSE
    /\ UNCHANGED <<token, mounted, location>>

\* onSubmit of a sign-in page up to the await of api.login or api.register
SubmitCredentials(path, endpoint) ==
    /\ mounted
    /\ location.path = path
    /\ Cardinality({i \in DOMAIN authCalls :
                       authCalls[i].endpoint # "/auth/me"}) < MaxCalls
    /\ authCalls' = Append(authCalls, AuthCall(endpoint))
    /\ UNCHANGED <<token, user, authLoading, mounted, location>>

\* LoginPage.onSubmit calling login(email, password)
login == SubmitCredentials("/login", "/auth/login")

\* RegisterPage.onSubmit calling register(name, email, password)
register == SubmitCredentials("/register", "/auth/register")

\* api.login or api.register is answered: the token is stored, the user set,
\* and the page navigates to the dashboard
SignInResolved ==
    /\ \E i \in PendingCalls({"/auth/login", "/auth/register"}) :
          \E identity \in Identities :
              /\ user' = identity
              /\ authCalls' = [authCalls EXCEPT ![i].pc = "ok",
                                                ![i].identity = identity]
              /\ location' = [path |-> "/dashboard",
                              by |-> IF authCalls[i].endpoint = "/auth/login"
                                       THEN "LoginPage" ELSE "RegisterPage"]
    /\ token' = TRUE
    /\ UNCHANGED <<authLoading, mounted>>

\* api.login or api.register fails: the page shows the error
SignInRejected ==
    /\ \E i \in PendingCalls({"/auth/login", "/auth/register"}) :
          authCalls' = [authCalls EXCEPT ![i].pc = "failed"]
    /\ UNCHANGED <<token, user, authLoading, mounted, location>>

\* logout, from the button of a page inside the outlet
logout ==
    /\ location.path \in ProtectedPaths
    /\ ProtectedRoute = "outlet"
    /\ token' = FALSE
    /\ user' = NoUser
    /\ UNCHANGED <<authLoading, mounted, authCalls, location>>

\* <Navigate to="/login" replace /> rendered by ProtectedRoute
RedirectToLogin ==
    /\ mounted
    /\ location.path \in ProtectedPaths
    /\ ProtectedRoute = "navigate"
    /\ location' = [path |-> "/login", by |-> "ProtectedRoute"]
    /\ UNCHANGED <<token, user, authLoading, mounted, authCalls>>

\* the user follows a link to another route
FollowLink ==
    /\ mounted
    /\ \E path \in (ProtectedPaths \cup PublicPaths) \ {location.path} :
          location' = [path |-> path, by |-> "user"]
    /\ UNCHANGED <<token, user, authLoading, mounted, authCalls>>

\* the document is loaded again at its location: the state of AuthProvider
\* starts over, the requests of the old document are gone, the token stays
ReloadDocument ==
    /\ mounted
    /\ user' = NoUser
    /\ authLoading' = TRUE
    /\ mounted' = FALSE
    /\ authCalls' = <<>>
    /\ location' = [location EXCEPT !.by = "user"]
    /\ UNCHANGED token

\* a document opened at any route, with or without a stored token, before the
\* first effect
AuthStarting ==
    /\ token \in BOOLEAN
    /\ user = NoUser
    /\ authLoading = TRUE
    /\ mounted = FALSE
    /\ authCalls = <<>>
    /\ location \in {[path |-> path, by |-> "user"] :
                        path \in ProtectedPaths \cup PublicPaths}

\* the entry before any page has written it
StoreIdle == archiveStorage = NoEntry /\ loadResult = NotLoaded

-----------------------------------------------------------------------------
(* ParticipantsPage: adding a colleague to a colleague list *)

\* the colleague lists of the user
ListIds == {1, 2}

\* the page not mounted: the useState defaults
ListsUnmounted ==
    /\ listSelections = NoColleagueSelections
    /\ colleagueLists = [id \in ColleagueIds |-> {}]
    /\ pageLists = <<>>
    /\ listCalls = <<>>
    /\ listMembers = <<>>

\* api.addColleagueToList(listId, colleagueId):
\* POST /colleagues/lists/:listId/members with the colleague in the body
addColleagueToList(listId, colleagueId) ==
    [method |-> "POST", resource |-> "colleagues/lists", id |-> listId,
     operation |-> "members", colleagueId |-> colleagueId]

\* availableListsByColleague[colleagueId]: the lists the colleague is not in
availableListsByColleague(colleagueId) ==
    {listId \in DOMAIN pageLists : listId \notin colleagueLists[colleagueId]}

\* the add-to-list controls of the colleague cards: the select and the button
AddToListControls ==
    IF participantsLoading THEN {}
    ELSE UNION {{[colleagueId |-> c, control |-> "listSelect",
                  options |-> availableListsByColleague(c),
                  disabled |-> availableListsByColleague(c) = {}],
                 [colleagueId |-> c, control |-> "addToList",
                  options |-> {},
                  disabled |-> listSelections[c] = 0]} : c \in ColleagueIds}

\* onChange of the list select of a card
SetListSelection ==
    /\ \E c \in AddToListControls :
          /\ c.control = "listSelect"
          /\ ~c.disabled
          /\ \E listId \in {0} \cup c.options :
                /\ listId # listSelections[c.colleagueId]
                /\ listSelections' = [listSelections EXCEPT ![c.colleagueId] = listId]
    /\ UNCHANGED <<colleagueLists, pageLists, listCalls, listMembers,
                   participantsError, participantsNotice>>

\* handleAddToList up to its await: the messages are cleared and the request
\* is issued
handleAddToList ==
    /\ \E c \in AddToListControls :
          /\ c.control = "addToList"
          /\ ~c.disabled
          /\ Len(listCalls) < MaxCalls
          /\ listCalls' = Append(listCalls,
                 [colleagueId |-> c.colleagueId,
                  listId |-> listSelections[c.colleagueId],
                  request |-> addColleagueToList(listSelections[c.colleagueId],
                                                 c.colleagueId),
                  pc |-> "await"])
    /\ participantsError' = NoMsg
    /\ participantsNotice' = NoMsg
    /\ UNCHANGED <<listSelections, colleagueLists, pageLists, listMembers>>

\* the lists the backend has the colleague in
ServerListsOf(members, colleagueId) ==
    {listId \in DOMAIN members : colleagueId \in members[listId]}

\* handleAddToList after the request resolved: the answered list replaces its
\* copy, the answered colleague replaces the card's, the selection is cleared
AddToListResolved ==
    \E i \in DOMAIN listCalls :
        LET call == listCalls[i]
            stored == [listMembers EXCEPT ![call.request.id] =
                           @ \cup {call.request.colleagueId}]
        IN  /\ call.pc = "await"
            /\ listMembers' = stored
            /\ pageLists' = [listId \in DOMAIN pageLists \cup {call.request.id} |->
                                IF listId = call.request.id
                                THEN stored[listId] ELSE pageLists[listId]]
            /\ colleagueLists' = [colleagueLists EXCEPT
                                      ![call.request.colleagueId] =
                                          ServerListsOf(stored, call.request.colleagueId)]
            /\ listSelections' = [listSelections EXCEPT ![call.colleagueId] = 0]
            /\ participantsNotice' = Msg("participants.addToListSuccess", 0)
            /\ listCalls' = [listCalls EXCEPT ![i].pc = "resolved"]
            /\ UNCHANGED participantsError

\* handleAddToList after the request was rejected
AddToListRejected ==
    \E i \in DOMAIN listCalls :
        /\ listCalls[i].pc = "await"
        /\ \E message \in RejectionMessages :
              participantsError' =
                  ErrorText(message, Msg("participants.errors.addToListFailed", 0))
        /\ listCalls' = [listCalls EXCEPT ![i].pc = "rejected"]
        /\ UNCHANGED <<listSelections, colleagueLists, pageLists, listMembers,
                       participantsNotice>>

\* the page after its initial load: two registered colleagues and two lists,
\* with colleague 5 in none of them, in list 1 or in both
ListsLoaded ==
    /\ listMembers \in {[listId \in ListIds |-> {}],
                        [listId \in ListIds |-> IF listId = 1 THEN {5} ELSE {}],
                        [listId \in ListIds |-> IF listId = 1 THEN {5} ELSE {5, 6}]}
    /\ pageLists = listMembers
    /\ colleagueLists = [id \in ColleagueIds |-> ServerListsOf(listMembers, id)]
    /\ listSelections = NoColleagueSelections
    /\ listCalls = <<>>
    /\ directory = <<ColleagueRecord(5, UserOfColleague(5), {}),
                     ColleagueRecord(6, UserOfColleague(6), {})>>
    /\ colleagues = directory
    /\ participantProjects = <<>>
    /\ projectTasks = <<>>
    /\ participantsLoading = FALSE
    /\ participantsError = NoMsg
    /\ participantsNotice = NoMsg
    /\ projectSelections = NoColleagueSelections
    /\ assigningProject = {}
    /\ taskProjectSelections = NoColleagueSelections
    /\ taskSelections = NoColleagueSelections
    /\ assigningTask = {}
    /\ participantCalls = <<>>

-----------------------------------------------------------------------------
(* DashboardPage: the re-fetches of overlapping handlers *)

\* no handler has called loadDashboardData
NoRefetches == refetches = <<>>

\* a re-fetch the backend has not answered yet
NotServed == [admin |-> <<>>, member |-> <<>>, lists |-> <<>>, served |-> FALSE]

\* the handler whose request was answered in this step calls
\* loadDashboardData: its re-fetch is the most recently issued one
RefetchIssued ==
    /\ TaskActionResolved \/ ProjectStatusResolved
    /\ refetches' = refetches \o
          [k \in 1..1 |->
              [call |-> CHOOSE i \in DOMAIN calls :
                                   calls[i].pc = "action" /\ calls'[i].pc = "load",
               response |-> NotServed, state |-> "issued"]]

\* the backend answers GET /projects/mine and GET /colleagues/lists of a
\* re-fetch with what it holds at that moment; the answer is then in flight
ReloadServed ==
    /\ \E k \in DOMAIN refetches :
          /\ refetches[k].state = "issued"
          /\ ~refetches[k].response.served
          /\ refetches' = [refetches EXCEPT
                               ![k].response = [admin |-> server.admin,
                                                member |-> server.member,
                                                lists |-> server.lists,
                                                served |-> TRUE]]
    /\ UNCHANGED <<dashVars, storeVars, authVars, boardVars>>

\* the answer of a re-fetch arrives: loadDashboardData stores it and ends,
\* the handler sets its notice and releases its gate
ReloadDelivered ==
    \E k \in DOMAIN refetches :
        LET i == refetches[k].call
        IN  /\ refetches[k].state = "issued"
            /\ refetches[k].response.served
            /\ StoreResponse(refetches[k].response)
            /\ loading' = FALSE
            /\ notice' = calls[i].successKey
            /\ ReleaseGate(calls[i])
            /\ calls' = [calls EXCEPT ![i].pc = "done", ![i].reload = "ok"]
            /\ refetches' = [refetches EXCEPT ![k].state = "stored"]
            /\ UNCHANGED <<tagFilter, projectStatusFilter, taskStatusFilter, filterNow,
                           loadResult, authVars, error, deleteVars, assigningFromList,
                           server>>

\* a re-fetch fails, before or after the backend has answered it
ReloadLost ==
    /\ ReloadRejected
    /\ refetches' = [k \in DOMAIN refetches |->
                        IF /\ calls[refetches[k].call].pc = "load"
                           /\ calls'[refetches[k].call].pc = "done"
                          THEN [refetches[k] EXCEPT !.state = "failed"]
                          ELSE refetches[k]]

-----------------------------------------------------------------------------
(* HistoryPage: restoring and deleting archived projects *)

\* the page not mounted: the useState defaults, nothing requested
HistoryUnmounted ==
    /\ serverArchived = <<>>
    /\ projectIndex = {}
    /\ localArchivedIds = <<>>
    /\ restoring = {}
    /\ historyDeleting = {}
    /\ historyLoading = TRUE
    /\ historyError = NoMsg
    /\ historyNotice = NoMsg
    /\ historyCalls = <<>>
    /\ historyBackend = [archived |-> <<>>, open |-> {}]

\* the elements of a list of ids
IdsOf(ids) == {ids[k] : k \in DOMAIN ids}

\* ids.filter((id) => id !== projectId)
WithoutId(ids, projectId) == SelectSeq(ids, LAMBDA id : id # projectId)

\* serverIds: the ids of the projects the backend reported as archived
serverIds == IdsOf(serverArchived)

\* localArchivedProjects: the locally archived ids that are not archived on
\* the backend and that the index knows
localArchivedProjects ==
    SelectSeq(localArchivedIds, LAMBDA id : id \notin serverIds /\ id \in projectIndex)

\* combinedProjects: the projects on display
combinedProjects == serverArchived \o localArchivedProjects

\* the restore and delete buttons of the cards
HistoryControls ==
    IF historyLoading THEN {}
    ELSE UNION {{[projectId |-> id, control |-> "restore",
                  disabled |-> id \in restoring \/ id \in historyDeleting],
                 [projectId |-> id, control |-> "delete",
                  disabled |-> id \in historyDeleting]} :
                   id \in IdsOf(combinedProjects)}

\* a handler invocation: the project of the card, and localArchivedIds as the
\* render that created the handler saw it
HistoryCall(handler, projectId, ids, pc) ==
    [handler |-> handler, id |-> projectId, ids |-> ids, pc |-> pc, outcome |-> ""]

\* persistLocalArchive(next): the entry is saved and the state set
persistLocalArchive(next) ==
    /\ archiveStorage' = SavedEntry(next)
    /\ localArchivedIds' = next

\* loadData up to its await; it runs at the mount and again when the
\* dictionary changes
loadData ==
    /\ ~historyLoading
    /\ Len(historyCalls) < MaxCalls
    /\ historyLoading' = TRUE
    /\ historyError' = NoMsg
    /\ historyCalls' = Append(historyCalls, HistoryCall("loadData", 0, <<>>, "await"))
    /\ UNCHANGED <<serverArchived, projectIndex, localArchivedIds, restoring,
                   historyDeleting, historyNotice, historyBackend, storeVars>>

\* loadData after its requests resolved: the answers and the stored ids are set
LoadDataResolved ==
    \E i \in DOMAIN historyCalls :
        /\ historyCalls[i].handler = "loadData"
        /\ historyCalls[i].pc = "await"
        /\ serverArchived' = historyBackend.archived
        /\ projectIndex' = historyBackend.open
        /\ localArchivedIds' = loadArchivedProjectIds(archiveStorage).ids
        /\ historyLoading' = FALSE
        /\ historyCalls' = [historyCalls EXCEPT ![i].pc = "done", ![i].outcome = "ok"]
        /\ UNCHANGED <<restoring, historyDeleting, historyError, historyNotice,
                       historyBackend, storeVars>>

\* loadData after a request was rejected
LoadDataRejected ==
    \E i \in DOMAIN historyCalls :
        /\ historyCalls[i].handler = "loadData"
        /\ historyCalls[i].pc = "await"
        /\ \E message \in RejectionMessages :
              historyError' = ErrorText(message, Msg("history.loadFailed", 0))
        /\ historyLoading' = FALSE
        /\ historyCalls' = [historyCalls EXCEPT ![i].pc = "done", ![i].outcome = "failed"]
        /\ UNCHANGED <<serverArchived, projectIndex, localArchivedIds, restoring,
                       historyDeleting, historyNotice, historyBackend, storeVars>>

\* handleRestore of a locally archived project: the id leaves the stored
\* list at once
RestoreLocal ==
    /\ Len(historyCalls) < MaxCalls
    /\ \E c \in HistoryControls :
          /\ c.control = "restore"
          /\ ~c.disabled
          /\ c.projectId \notin serverIds
          /\ persistLocalArchive(WithoutId(localArchivedIds, c.projectId))
          /\ historyCalls' = Append(historyCalls,
                 HistoryCall("handleRestore", c.projectId, localArchivedIds, "local"))
    /\ historyNotice' = Msg("history.restoreSuccess", 0)
    /\ UNCHANGED <<serverArchived, projectIndex, restoring, historyDeleting,
                   historyLoading, historyError, historyBackend, loadResult>>

\* handleRestore of a project archived on the backend, up to its await
RestoreServer ==
    /\ Len(historyCalls) < MaxCalls
    /\ \E c \in HistoryControls :
          /\ c.control = "restore"
          /\ ~c.disabled
          /\ c.projectId \in serverIds
          /\ restoring' = restoring \cup {c.projectId}
          /\ historyCalls' = Append(historyCalls,
                 HistoryCall("handleRestore", c.projectId, localArchivedIds, "await"))
    /\ UNCHANGED <<serverArchived, projectIndex, localArchivedIds, historyDeleting,
                   historyLoading, historyError, historyNotice, historyBackend,
                   storeVars>>

\* the backend reopened the project
RestoreResolved ==
    \E i \in DOMAIN historyCalls :
        LET id == historyCalls[i].id
        IN  /\ historyCalls[i].handler = "handleRestore"
            /\ historyCalls[i].pc = "await"
            /\ id \in IdsOf(historyBackend.archived)
            /\ historyBackend' = [archived |-> WithoutId(historyBackend.archived, id),
                                  open |-> historyBackend.open \cup {id}]
            /\ serverArchived' = WithoutId(serverArchived, id)
            /\ historyNotice' = Msg("history.restoreSuccess", 0)
            /\ restoring' = restoring \ {id}
            /\ historyCalls' = [historyCalls EXCEPT ![i].pc = "done",
                                                    ![i].outcome = "ok"]
            /\ UNCHANGED <<projectIndex, localArchivedIds, historyDeleting,
                           historyLoading, historyError, storeVars>>

\* the restore request failed
RestoreRejected ==
    \E i \in DOMAIN historyCalls :
        /\ historyCalls[i].handler = "handleRestore"
        /\ historyCalls[i].pc = "await"
        /\ \E message \in RejectionMessages :
              historyError' =
                  ErrorText(message, Msg("dashboard.projectStatusUpdateFailed", 0))
        /\ restoring' = restoring \ {historyCalls[i].id}
        /\ historyCalls' = [historyCalls EXCEPT ![i].pc = "done", ![i].outcome = "failed"]
        /\ UNCHANGED <<serverArchived, projectIndex, localArchivedIds,
                       historyDeleting, historyLoading, historyNotice,
                       historyBackend, storeVars>>

\* handleDelete, confirmed in window.confirm, up to its await
historyHandleDelete ==
    /\ Len(historyCalls) < MaxCalls
    /\ \E c \in HistoryControls :
          /\ c.control = "delete"
          /\ ~c.disabled
          /\ historyDeleting' = historyDeleting \cup {c.projectId}
          /\ historyCalls' = Append(historyCalls,
                 HistoryCall("handleDelete", c.projectId, localArchivedIds, "await"))
    /\ UNCHANGED <<serverArchived, projectIndex, localArchivedIds, restoring,
                   historyLoading, historyError, historyNotice, historyBackend,
                   storeVars>>

\* which render's localArchivedIds the rest of handleDelete filters: the one
\* of the render that created the handler
IdsSeenByHandler(call) == call.ids

\* the backend deleted the project: it leaves serverArchived and the stored
\* ids, the notice is set
HistoryDeleteResolved ==
    \E i \in DOMAIN historyCalls :
        LET id == historyCalls[i].id
        IN  /\ historyCalls[i].handler = "handleDelete"
            /\ historyCalls[i].pc = "await"
            /\ id \in IdsOf(historyBackend.archived) \cup historyBackend.open
            /\ historyBackend' = [archived |-> WithoutId(historyBackend.archived, id),
                                  open |-> historyBackend.open \ {id}]
            /\ serverArchived' = WithoutId(serverArchived, id)
            /\ persistLocalArchive(WithoutId(IdsSeenByHandler(historyCalls[i]), id))
            /\ historyNotice' = Msg("dashboard.deleteSuccess", 0)
            /\ historyDeleting' = historyDeleting \ {id}
            /\ historyCalls' = [historyCalls EXCEPT ![i].pc = "done",
                                                    ![i].outcome = "ok"]
            /\ UNCHANGED <<projectIndex, restoring, historyLoading, historyError,
                           loadResult>>

\* the delete request failed
HistoryDeleteRejected ==
    \E i \in DOMAIN historyCalls :
        /\ historyCalls[i].handler = "handleDelete"
        /\ historyCalls[i].pc = "await"
        /\ \E message \in RejectionMessages :
              historyError' = ErrorText(message, Msg("dashboard.deleteFailed", 0))
        /\ historyDeleting' = historyDeleting \ {historyCalls[i].id}
        /\ historyCalls' = [historyCalls EXCEPT ![i].pc = "done", ![i].outcome = "failed"]
        /\ UNCHANGED <<serverArchived, projectIndex, localArchivedIds, restoring,
                       historyLoading, historyNotice, historyBackend, storeVars>>

\* the timer of the notice effect: three seconds after a notice was set
HistoryNoticeTimeout_ClearsError ==
    /\ historyNotice # NoMsg
    /\ historyNotice' = NoMsg
    /\ historyError' = NoMsg
    /\ UNCHANGED <<serverArchived, projectIndex, localArchivedIds, restoring,
                   historyDeleting, historyLoading, historyCalls,
                   historyBackend, storeVars>>

HistoryNoticeTimeout ==
    /\ historyNotice # NoMsg
    /\ historyNotice' = NoMsg
    /\ UNCHANGED <<serverArchived, projectIndex, localArchivedIds, restoring,
                   historyDeleting, historyLoading, historyError, historyCalls,
                   historyBackend, storeVars>>

\* the page after its first loadData: project 3 is archived on the backend,
\* projects 1 and 2 are open, and both or one of them is archived locally
HistoryLoaded ==
    /\ historyBackend = [archived |-> <<3>>, open |-> {1, 2}]
    /\ localArchivedIds \in {<<1, 2>>, <<2>>}
    /\ archiveStorage = SavedEntry(localArchivedIds)
    /\ loadResult = NotLoaded
    /\ serverArchived = historyBackend.archived
    /\ projectIndex = historyBackend.open
    /\ restoring = {}
    /\ historyDeleting = {}
    /\ historyLoading = FALSE
    /\ historyError = NoMsg
    /\ historyNotice = NoMsg
    /\ historyCalls = <<>>

-----------------------------------------------------------------------------
(* CalendarMePage: the events of the days and the archived projects *)

\* archive.ts ARCHIVE_STORAGE_KEY, and the key of the language setting
ARCHIVE_STORAGE_KEY == "dashboard-archived-projects"
LanguageKey == "task-manager-language"

\* RangeFilter: the instants of from and to, NaN for an absent one
Range(from, to) == [from |-> from, to |-> to]

\* the page not mounted
CalendarUnmounted ==
    /\ allTasks = <<>>
    /\ allProjects = <<>>
    /\ calendarArchivedIds = <<>>
    /\ rangeFilter = Range(NaN, NaN)
    /\ calendarLoading = TRUE
    /\ calendarError = NoMsg
    /\ storageEvents = <<>>

\* a CalendarTask: its id, the id of its project, its deadline
CalendarTask(id, projectId, ts) ==
    [id |-> id, project |-> [id |-> projectId], deadline |-> ts]

\* an instant in the morning of day n, and the midnight that starts day n
Morning(n) == Timestamp("iso", n * MsPerDay + MsPerHour)
Midnight(n) == Timestamp("iso", n * MsPerDay)

\* format(date, 'yyyy-MM-dd'): the day of an instant
DayKey(t) == t \div MsPerDay

\* parseRangeParams: a bound is set for a parameter that is a date
parseRangeParams(params) ==
    Range(IF Falsy(params.from) THEN NaN ELSE DateTime(params.from),
          IF Falsy(params.to) THEN NaN ELSE DateTime(params.to))

\* archivedSet, tasks and projects: what is left of the answers without
\* the archived projects
archivedSet == {calendarArchivedIds[k] : k \in DOMAIN calendarArchivedIds}

calendarTasks == SelectSeq(allTasks, LAMBDA task : task.project.id \notin archivedSet)

calendarProjects == SelectSeq(allProjects, LAMBDA project : project.id \notin archivedSet)

\* withinRange
withinRange(date) ==
    /\ ~(~IsNaN(rangeFilter.from) /\ date < rangeFilter.from)
    /\ ~(~IsNaN(rangeFilter.to) /\ date > rangeFilter.to)

\* the deadline gives an event: safeDate returns a date inside the range
HasEvent(ts) == ~IsNaN(safeDate(ts)) /\ withinRange(safeDate(ts))

\* seenTaskIds after the loop over tasks
seenTaskIds ==
    {calendarTasks[k].id :
        k \in {x \in DOMAIN calendarTasks : HasEvent(calendarTasks[x].deadline)}}

\* seenTaskIds.has(task.id) in the loop over the tasks of the projects
Seen_Never(taskId) == FALSE

Seen(taskId) == taskId \in seenTaskIds

\* the events of the map
TaskEvent(task, projectId) ==
    [type |-> "task", day |-> DayKey(safeDate(task.deadline)), id |-> task.id,
     projectId |-> projectId]

ProjectEvent(project) ==
    [type |-> "project", day |-> DayKey(safeDate(project.deadline)),
     id |-> project.id, projectId |-> project.id]

\* the events added by tasks.forEach
CalendarTaskEvents ==
    LET shown == SelectSeq(calendarTasks, LAMBDA task : HasEvent(task.deadline))
    IN  [k \in DOMAIN shown |-> TaskEvent(shown[k], shown[k].project.id)]

\* the events added by projects.forEach: the unseen tasks of a project, then
\* its deadline
RECURSIVE ProjectEvents(_)
ProjectEvents(list) ==
    IF list = <<>> THEN <<>>
    ELSE LET project == Head(list)
             shown == SelectSeq(project.tasks,
                          LAMBDA task : ~Seen(task.id) /\ HasEvent(task.deadline))
         IN  [k \in DOMAIN shown |-> TaskEvent(shown[k], project.id)]
             \o (IF HasEvent(project.deadline) THEN <<ProjectEvent(project)>> ELSE <<>>)
             \o ProjectEvents(Tail(list))

\* every event, in the order of its addition, and eventsByDate[key]
DayEvents == CalendarTaskEvents \o ProjectEvents(calendarProjects)

eventsByDate(key) == SelectSeq(DayEvents, LAMBDA event : event.day = key)

\* the projects of an answer of api.projectsMine, each once: the admin ones,
\* then the member ones that are not among them
DedupProjects(admin_, member_) ==
    admin_ \o SelectSeq(member_,
                  LAMBDA project : \A a \in DOMAIN admin_ : admin_[a].id # project.id)

\* project 1 with a deadline, a task due on day 1 and a task without
\* deadline; project 2 without deadline, with a task due on day 3
CalendarProject1 ==
    Project(1, "ACTIVE", Morning(2),
            <<ProjectTask(11, <<>>, "NEW", Morning(1)),
              ProjectTask(12, <<>>, "NEW", Timestamp("null", 0))>>)

CalendarProject2 ==
    Project(2, "ACTIVE", Timestamp("null", 0), <<ProjectTask(21, <<>>, "NEW", Morning(3))>>)

\* answers of api.projectsMine: the user administers project 1 and is a
\* member of project 2, or of both
ProjectAnswers ==
    {[admin |-> <<CalendarProject1>>, member |-> <<CalendarProject2>>],
     [admin |-> <<CalendarProject1>>, member |-> <<CalendarProject1, CalendarProject2>>]}

\* answers of api.calendarMe: no task; the tasks with a deadline; task 11
\* with a deadline changed since and task 12
CalendarAnswers ==
    {<<>>,
     <<CalendarTask(11, 1, Morning(1)), CalendarTask(21, 2, Morning(3))>>,
     <<CalendarTask(11, 1, Morning(2)), CalendarTask(12, 1, Timestamp("null", 0))>>}

\* the values of the from and to inputs: empty, or days 2 and 3
RangeParams ==
    {[from |-> Timestamp("empty", 0), to |-> Timestamp("empty", 0)],
     [from |-> Midnight(2), to |-> Midnight(4)]}

\* the lists of archived ids another tab saves
ArchivedIdLists == {<<>>, <<1>>, <<2, 1>>}

\* fetchData up to its await: called by onFilter and onReset
fetchData ==
    /\ ~calendarLoading
    /\ calendarLoading' = TRUE
    /\ calendarError' = NoMsg
    /\ \E params \in RangeParams : rangeFilter' = parseRangeParams(params)
    /\ UNCHANGED <<allTasks, allProjects, calendarArchivedIds, storageEvents, storeVars>>

\* fetchData after both requests resolved
FetchResolved ==
    /\ calendarLoading
    /\ \E taskData \in CalendarAnswers : allTasks' = taskData
    /\ \E projectData \in ProjectAnswers :
          allProjects' = DedupProjects(projectData.admin, projectData.member)
    /\ calendarLoading' = FALSE
    /\ UNCHANGED <<calendarArchivedIds, rangeFilter, calendarError, storageEvents, storeVars>>

\* fetchData after a request was rejected
FetchRejected ==
    /\ calendarLoading
    /\ \E message \in RejectionMessages :
          calendarError' = ErrorText(message, Msg("calendar.loadFailed", 0))
    /\ calendarLoading' = FALSE
    /\ UNCHANGED <<allTasks, allProjects, calendarArchivedIds, rangeFilter, storageEvents,
                   storeVars>>

\* the dashboard of another tab saves its archived ids: the entry changes
\* and a storage event is on its way to this page
OtherTabSaves ==
    /\ Len(storageEvents) < MaxCalls
    /\ \E ids \in ArchivedIdLists :
          /\ SavedEntry(ids) # archiveStorage
          /\ archiveStorage' = SavedEntry(ids)
    /\ storageEvents' = Append(storageEvents, ARCHIVE_STORAGE_KEY)
    /\ UNCHANGED <<allTasks, allProjects, calendarArchivedIds, rangeFilter, calendarLoading,
                   calendarError, loadResult>>

\* another tab switches the language: a storage event for that key
OtherTabSetsLanguage ==
    /\ Len(storageEvents) < MaxCalls
    /\ storageEvents' = Append(storageEvents, LanguageKey)
    /\ UNCHANGED <<allTasks, allProjects, calendarArchivedIds, rangeFilter, calendarLoading,
                   calendarError, storeVars>>

\* event.key === ARCHIVE_STORAGE_KEY
ListensTo_AnyKey(key) == TRUE

ListensTo(key) == key = ARCHIVE_STORAGE_KEY

\* handleStorage: the oldest event is delivered
handleStorage ==
    /\ storageEvents # <<>>
    /\ calendarArchivedIds' = IF ListensTo(Head(storageEvents))
                        THEN loadArchivedProjectIds(archiveStorage).ids
                        ELSE calendarArchivedIds
    /\ storageEvents' = Tail(storageEvents)
    /\ UNCHANGED <<allTasks, allProjects, rangeFilter, calendarLoading, calendarError,
                   storeVars>>

\* the lists of archived ids in the entry when the page is mounted
MountedIdLists == {<<>>, <<2>>}

\* the page during its first fetchData: the archived ids were loaded from
\* the entry at the mount
CalendarMounted ==
    /\ \E ids \in MountedIdLists :
          /\ archiveStorage = SavedEntry(ids)
          /\ calendarArchivedIds = loadArchivedProjectIds(archiveStorage).ids
    /\ loadResult = NotLoaded
    /\ allTasks = <<>>
    /\ allProjects = <<>>
    /\ rangeFilter = Range(NaN, NaN)
    /\ calendarLoading = TRUE
    /\ calendarError = NoMsg
    /\ storageEvents = <<>>

-----------------------------------------------------------------------------
(* Specifications *)

InitCreate ==
    /\ CreateFormFilled /\ ClassifierIdle /\ DashboardIdle /\ StoreIdle
    /\ AuthUnmounted /\ BoardUnmounted /\ ParticipantsUnmounted
    /\ ListsUnmounted
    /\ NoRefetches
    /\ HistoryUnmounted
    /\ CalendarUnmounted

NextCreate ==
    /\ OnCreate \/ CreateResolved \/ CreateRejected
    /\ UNCHANGED <<clsVars, dashVars, storeVars, authVars, boardVars, partVars, listVars,
                   fetchVars, histVars, calVars>>

SpecCreate == InitCreate /\ [][NextCreate]_vars

InitClassify ==
    /\ ClassifierInputs /\ CreateFormMounted /\ DashboardIdle /\ StoreIdle
    /\ AuthUnmounted /\ BoardUnmounted /\ ParticipantsUnmounted
    /\ ListsUnmounted
    /\ NoRefetches
    /\ HistoryUnmounted
    /\ CalendarUnmounted

NextClassify ==
    /\ CallComputeDeadlineInfo \/ CallComputeBadge \/ CallComputeRemaining
    /\ UNCHANGED <<createVars, dashVars, storeVars, authVars, boardVars, partVars,
                   listVars, fetchVars, histVars, calVars>>

SpecClassify == InitClassify /\ [][NextClassify]_vars

InitFilter ==
    /\ DashboardLoaded /\ CreateFormMounted /\ ClassifierIdle
    /\ AuthSignedIn /\ BoardLoadedWithoutLists /\ ParticipantsUnmounted
    /\ ListsUnmounted
    /\ NoRefetches
    /\ HistoryUnmounted
    /\ CalendarUnmounted

NextFilter ==
    /\ \/ SetTagFilter
       \/ SetProjectStatusFilter
       \/ SetTaskStatusFilter
       \/ ArchiveProject
       \/ RestoreProject
       \/ NoticeTimeout
    /\ UNCHANGED <<createVars, clsVars, partVars, listVars, fetchVars, histVars, calVars>>

SpecFilter == InitFilter /\ [][NextFilter]_vars

InitBoard ==
    /\ BoardLoaded /\ AuthSignedIn /\ CreateFormMounted /\ ClassifierIdle
    /\ ParticipantsUnmounted
    /\ ListsUnmounted
    /\ NoRefetches
    /\ HistoryUnmounted
    /\ CalendarUnmounted

NextBoard ==
    /\ \/ handleSubmitTask
       \/ handleApproveTask
       \/ handleCompleteTask
       \/ handleReopenTask
       \/ handleProjectStatusChange
       \/ TaskActionResolved
       \/ ProjectStatusResolved
       \/ ActionRejected
       \/ ReloadResolved
       \/ ReloadRejected
       \/ NoticeTimeout
    /\ UNCHANGED <<createVars, clsVars, partVars, listVars, fetchVars, histVars, calVars>>

SpecBoard == InitBoard /\ [][NextBoard]_vars

InitDelete ==
    /\ BoardOfAdmin /\ AuthSignedIn /\ CreateFormMounted /\ ClassifierIdle
    /\ ParticipantsUnmounted
    /\ ListsUnmounted
    /\ NoRefetches
    /\ HistoryUnmounted
    /\ CalendarUnmounted

NextDelete ==
    /\ \/ requestDelete
       \/ cancelDelete
       \/ handleDelete
       \/ DeleteResolved
       \/ DeleteRejected
       \/ NoticeTimeout
    /\ UNCHANGED <<createVars, clsVars, partVars, listVars, fetchVars, histVars, calVars>>

SpecDelete == InitDelete /\ [][NextDelete]_vars

\* either page is open: the dashboard, or the participants page
InitAssign ==
    /\ CreateFormMounted /\ ClassifierIdle /\ AuthSignedIn
    /\ \/ AssignBoardLoaded /\ ParticipantsUnmounted
       \/ /\ ParticipantsLoaded
          /\ DashboardIdle /\ StoreIdle /\ BoardAtDefaults
          /\ loading = TRUE
          /\ lists = <<>>
    /\ ListsUnmounted
    /\ NoRefetches
    /\ HistoryUnmounted
    /\ CalendarUnmounted

NextAssign ==
    \/ /\ \/ handleListChange
          \/ handleUserChange
          \/ handleAssignFromList
          \/ AssignResolved
          \/ AssignUnconfirmed
          \/ AssignRejected
          \/ AssignReloadResolved
          \/ AssignReloadRejected
          \/ ListsEdited
          \/ NoticeTimeout
       /\ UNCHANGED <<createVars, clsVars, partVars, listVars, fetchVars, histVars, calVars>>
    \/ /\ \/ SetProjectSelection
          \/ handleAssignProject
          \/ AssignProjectResolved
          \/ AssignProjectRejected
          \/ handleTaskProjectChange
          \/ SetTaskSelection
          \/ handleAssignTask
          \/ AssignTaskResolved
          \/ AssignTaskRejected
          \/ ProjectTasksResolved
          \/ ProjectTasksRejected
          \/ ColleagueRegisters
       /\ UNCHANGED <<createVars, clsVars, dashVars, storeVars, authVars, pageVars,
                      deleteVars, assignVars, updateVars, calls, listVars,
                      fetchVars, histVars, calVars>>

SpecAssign == InitAssign /\ [][NextAssign]_vars

InitAuth ==
    /\ AuthStarting /\ CreateFormMounted /\ ClassifierIdle /\ DashboardIdle
    /\ StoreIdle /\ BoardUnmounted /\ ParticipantsUnmounted
    /\ ListsUnmounted
    /\ NoRefetches
    /\ HistoryUnmounted
    /\ CalendarUnmounted

NextAuth ==
    /\ \/ MountEffect
       \/ MeResolved
       \/ MeRejected
       \/ login
       \/ register
       \/ SignInResolved
       \/ SignInRejected
       \/ logout
       \/ RedirectToLogin
       \/ FollowLink
       \/ ReloadDocument
    /\ UNCHANGED <<createVars, clsVars, dashVars, storeVars, boardVars, partVars,
                   listVars, fetchVars, histVars, calVars>>

SpecAuth == InitAuth /\ [][NextAuth]_vars

InitStore ==
    /\ StoreIdle /\ CreateFormMounted /\ ClassifierIdle /\ DashboardIdle
    /\ AuthUnmounted /\ BoardUnmounted /\ ParticipantsUnmounted
    /\ ListsUnmounted
    /\ NoRefetches
    /\ HistoryUnmounted
    /\ CalendarUnmounted

NextStore ==
    /\ SaveArchived \/ OverwriteEntry \/ LoadArchived
    /\ UNCHANGED <<createVars, clsVars, dashVars, authVars, boardVars,
                   partVars, listVars, fetchVars, histVars, calVars>>

SpecStore == InitStore /\ [][NextStore]_vars

-----------------------------------------------------------------------------
(* Claims about CreateProjectPage.onCreate, checked under SpecCreate *)

\* a date-input value that is present and denotes a date
DatePresentAndParseable(value) == value \in {"2025-06-01", "2025-06-02"}

\* the text has a character other than a space
HasVisibleChar(text) == \E j \in DOMAIN text : text[j] # " "

\* the conditions on one task draft, as the validator's contract states them
TaskAcceptable(task, projectDeadline) ==
    /\ HasVisibleChar(task.title)
    /\ \E k \in DOMAIN task.tags : HasVisibleChar(task.tags[k])
    /\ DatePresentAndParseable(task.deadline)
    /\ DateInputTime(task.deadline) <= DateInputTime(projectDeadline)

\* the conditions on the whole form
FormAcceptable ==
    /\ DatePresentAndParseable(deadline)
    /\ \A i \in DOMAIN tasksInput : TaskAcceptable(tasksInput[i], deadline)

\* this step is a run of onCreate
OnCreateRan == submits' # submits

\* this step sends a create-project request
RequestIssued == Len(createCalls') > Len(createCalls)

\* C1: onCreate issues a create-project request only if the project deadline
\* is present and parseable and every task has a non-empty trimmed title, a
\* non-empty tag set, a present and parseable deadline not later than the
\* project deadline; when a condition fails it sets an error message and
\* issues no request.
C1_RequestOnlyIfFormValid ==
    [][ /\ RequestIssued => FormAcceptable
        /\ (OnCreateRan /\ ~FormAcceptable) =>
              (taskError' # NoMsg /\ createCalls' = createCalls /\ ~creating')
      ]_vars

\* onCreate ran on the form of the spec's example (project deadline
\* 2025-06-01, task deadline 2025-06-02): error for task 1, nothing sent
C1_Witness ==
    /\ submits = 1
    /\ deadline = "2025-06-01"
    /\ Len(tasksInput) = 1
    /\ tasksInput[1].deadline = "2025-06-02"
    /\ taskError = Msg("projects.errors.taskAfterProject", 1)
    /\ createCalls = <<>>

\* C2: a task whose deadline equals the project deadline passes: with an
\* otherwise valid form onCreate sends the request and the payload holds that
\* task, with the project's deadline as its deadline.
C2_EqualDeadlineAccepted ==
    [][ \A i \in DOMAIN tasksInput :
          (OnCreateRan /\ FormAcceptable /\ tasksInput[i].deadline = deadline) =>
             /\ RequestIssued
             /\ LET payload == createCalls'[Len(createCalls')]
                IN  /\ Len(payload.tasks) = Len(tasksInput)
                    /\ payload.deadline = DateInputTime(deadline)
                    /\ payload.tasks[i].deadline = payload.deadline
                    /\ HasVisibleChar(payload.tasks[i].title)
      ]_vars

\* a request is in flight whose only task is due on the project's deadline
C2_Witness ==
    /\ creating
    /\ Len(createCalls) = 1
    /\ Len(createCalls[1].tasks) = 1
    /\ createCalls[1].tasks[1].deadline = createCalls[1].deadline
    /\ tasksInput[1].deadline = deadline

\* indexes of the task drafts that break a condition
InvalidTaskIndexes ==
    {i \in DOMAIN tasksInput : ~TaskAcceptable(tasksInput[i], deadline)}

ProjectDeadlineErrorKeys ==
    {"projects.errors.chooseDeadline", "projects.errors.invalidDeadline"}

TaskErrorKeys ==
    {"projects.errors.fillTask", "projects.errors.setTaskDeadline",
     "projects.errors.invalidTaskDeadline", "projects.errors.taskAfterProject"}

\* C3: failed validation yields one error: a missing or unparseable project
\* deadline is reported whatever the tasks are, otherwise the error names the
\* 1-based index of the lowest-index invalid task.
C3_FirstFailureReported ==
    [][ (OnCreateRan /\ ~FormAcceptable) =>
          IF ~DatePresentAndParseable(deadline)
            THEN /\ taskError'.key \in ProjectDeadlineErrorKeys
                 /\ (taskError'.key = "projects.errors.chooseDeadline")
                       <=> (deadline = "")
            ELSE /\ taskError'.key \in TaskErrorKeys
                 /\ taskError'.n \in InvalidTaskIndexes
                 /\ \A i \in InvalidTaskIndexes : taskError'.n <= i
      ]_vars

\* onCreate ran on a form whose tasks 1 and 2 are both invalid, for different
\* reasons, and reported task 1
C3_Witness ==
    /\ submits = 1
    /\ DatePresentAndParseable(deadline)
    /\ InvalidTaskIndexes = {1, 2}
    /\ tasksInput[1].deadline = ""
    /\ HasVisibleChar(tasksInput[1].title)
    /\ tasksInput[1].tags # <<>>
    /\ ~HasVisibleChar(tasksInput[2].title)
    /\ taskError = Msg("projects.errors.setTaskDeadline", 1)

-----------------------------------------------------------------------------
(* Claims about the deadline classifiers, checked under SpecClassify *)

\* the branch the classifier contract gives for a day difference
ExpectedInfo(diffDays) ==
    IF diffDays > 1 THEN DeadlineInfo(Msg("deadlines.daysLeft", diffDays), "ok")
    ELSE IF diffDays = 1 THEN DeadlineInfo(Msg("deadlines.dayLeft", 0), "warn")
    ELSE IF diffDays = 0 THEN DeadlineInfo(Msg("deadlines.dueToday", 0), "warn")
    ELSE IF diffDays = -1 THEN DeadlineInfo(Msg("deadlines.overdueOne", 0), "danger")
    ELSE DeadlineInfo(Msg("deadlines.overdueMany", -diffDays), "danger")

\* day differences the instants of the model can produce
DayDiffs == (0 - (MaxHours \div 24) - 2) .. ((MaxHours \div 24) + 2)

\* k is the ceiling of diffMs / MsPerDay
IsCeilingOfDays(k, diffMs) ==
    (k - 1) * MsPerDay < diffMs /\ diffMs <= k * MsPerDay

\* C4: for a parseable deadline d and clock value now, computeDeadlineInfo
\* returns the branch of diffDays = ceil((d - now) / 86400000): ok 'N days
\* left' above 1, warn '1 day left' at 1, warn 'due today' at 0, danger
\* 'overdue by 1 day' at -1, danger 'overdue by N days' below; one hour past is
\* 'due today', thirty hours past is 'overdue by 1 day'.
C4_CeilingClassification ==
    (deadlineInfo # NoInfo /\ clsDeadline.kind = "iso") =>
        /\ \E k \in DayDiffs :
              /\ IsCeilingOfDays(k, clsDeadline.t - clsNow)
              /\ deadlineInfo = ExpectedInfo(k)
        /\ (clsDeadline.t - clsNow = 0 - MsPerHour) =>
              deadlineInfo = DeadlineInfo(Msg("deadlines.dueToday", 0), "warn")
        /\ (clsDeadline.t - clsNow = 0 - 30 * MsPerHour) =>
              deadlineInfo = DeadlineInfo(Msg("deadlines.overdueOne", 0), "danger")

\* computeDeadlineInfo has classified a deadline thirty hours in the past
C4_Witness ==
    /\ clsDeadline.kind = "iso"
    /\ clsDeadline.t - clsNow = 0 - 30 * MsPerHour
    /\ deadlineInfo = DeadlineInfo(Msg("deadlines.overdueOne", 0), "danger")

\* what the contract gives for a timestamp that is absent or no date
MutedInfoFor(ts) ==
    IF ts.kind \in {"null", "undefined", "empty"}
      THEN DeadlineInfo(Msg("deadlines.none", 0), "muted")
      ELSE DeadlineInfo(Msg("deadlines.invalid", 0), "muted")

\* C5: computeDeadlineInfo, computeBadge and computeRemaining all return
\* muted 'no deadline' when no timestamp is given and muted 'invalid date'
\* when the timestamp is present but unparseable.
C5_MutedForMissingOrInvalid ==
    clsDeadline.kind # "iso" =>
        /\ deadlineInfo # NoInfo => deadlineInfo = MutedInfoFor(clsDeadline)
        /\ badge # NoInfo => badge = MutedInfoFor(clsDeadline)
        /\ remaining # NoInfo => remaining = MutedInfoFor(clsDeadline)

-----------------------------------------------------------------------------
(* Claims about the dashboard filters, checked under SpecFilter *)

\* the two letters are the same up to case
SameLetter(a, b) ==
    a = b \/ {a, b} \in {{"D", "d"}, {"Q", "q"}, {"A", "a"}}

\* the text without its padding (no tag of the model has an inner space)
Unpadded(text) == SelectSeq(text, LAMBDA c : c # " ")

\* the tags are equal case-insensitively, padding aside
SameTag(a, b) ==
    /\ Len(Unpadded(a)) = Len(Unpadded(b))
    /\ \A j \in DOMAIN Unpadded(a) : SameLetter(Unpadded(a)[j], Unpadded(b)[j])

\* the task carries the tag
Carries(task, tag) == \E k \in DOMAIN task.tags : SameTag(task.tags[k], tag)

\* the project survives the selected tag: none selected, or a task carries it
SurvivesTag(project) ==
    tagFilter = <<>> \/ \E j \in DOMAIN project.tasks : Carries(project.tasks[j], tagFilter)

Ids(projects) == {projects[i].id : i \in DOMAIN projects}

TaskIds(tasks) == {tasks[j].id : j \in DOMAIN tasks}

\* the result keeps the order of the list it was filtered from
KeepsOrder(result) ==
    \A i, j \in DOMAIN result : i < j => result[i].id < result[j].id

\* the result of the tag filter on one list is what the contract says
TagFilterResultFor(list) ==
    LET result == filterProjectsByTag(list, tagFilter)
    IN  IF tagFilter = <<>> THEN result = list
        ELSE /\ Ids(result) = {list[i].id : i \in {i \in DOMAIN list : SurvivesTag(list[i])}}
             /\ Len(result) = Cardinality(Ids(result))
             /\ KeepsOrder(result)
             /\ \A r \in DOMAIN result : \A i \in DOMAIN list :
                   result[r].id = list[i].id =>
                      /\ result[r].tasks =
                            SelectSeq(list[i].tasks, LAMBDA task : Carries(task, tagFilter))
                      /\ result[r].status = list[i].status
                      /\ result[r].deadline = list[i].deadline

\* C6: with a tag selected the tag filter compares case-insensitively after
\* trimming and returns exactly the projects with a task carrying the tag,
\* each with exactly its matching tasks; with no tag selected it returns the
\* list unchanged.
C6_TagFilterExact == TagFilterResultFor(admin) /\ TagFilterResultFor(member)

\* QA is selected: the first project, with tasks tagged Design and QA, is
\* kept with its QA task only; the second, whose only tag is spelled ' qa ',
\* is kept whole
C6_Witness ==
    /\ tagFilter = Tag_QA
    /\ Len(admin) = 2
    /\ admin[1].tasks = TasksDesignAndQA(1)
    /\ admin[2].tasks = TasksPaddedQa(2)
    /\ Len(filterProjectsByTag(admin, tagFilter)) = 2
    /\ TaskIds(filterProjectsByTag(admin, tagFilter)[1].tasks) = {12}
    /\ TaskIds(filterProjectsByTag(admin, tagFilter)[2].tasks) = {21}

\* C7: under every project-status filter other than 'archived', whatever the
\* tag and task-status filters, no archived project is in the filtered admin
\* or member list; under 'archived' only archived projects are.
C7_ArchivedOnlyUnderArchived ==
    LET shown == Ids(filteredAdminProjects) \cup Ids(filteredMemberProjects)
        archived == {archivedProjectIds[i] : i \in DOMAIN archivedProjectIds}
    IN  IF projectStatusFilter = "archived"
          THEN shown \subseteq archived
          ELSE shown \cap archived = {}

\* under 'all', of two administered projects the archived one is hidden
C7_Witness ==
    /\ projectStatusFilter = "all"
    /\ tagFilter = <<>>
    /\ Len(admin) = 2
    /\ archivedProjectIds = <<1>>
    /\ Ids(filteredAdminProjects) = {2}

\* the class the contract gives a project that is not archived
StatusClass(project) ==
    IF project.status = "COMPLETED" THEN "completed"
    ELSE IF project.deadline.kind = "iso" /\ project.deadline.t < filterNow
      THEN "overdue"
    ELSE "active"

\* ids of the list's projects that are not archived and survive the tag
Candidates(list) ==
    {list[i].id : i \in {i \in DOMAIN list :
                           /\ ~Includes(archivedProjectIds, list[i].id)
                           /\ SurvivesTag(list[i])}}

\* ids shown from the list when the project-status filter is f
ShownUnder(list, f) ==
    Ids(FilterPipeline(list, tagFilter, f, taskStatusFilter, archivedProjectIds,
                       filterNow))

StatusClassesFor(list) ==
    /\ projectStatusFilter \in {"active", "completed", "overdue"} =>
          Ids(applyProjectFilters(list)) =
             {list[i].id : i \in {i \in DOMAIN list :
                                    /\ list[i].id \in Candidates(list)
                                    /\ StatusClass(list[i]) = projectStatusFilter}}
    /\ \A id \in Candidates(list) :
          Cardinality({f \in {"active", "completed", "overdue"} :
                          id \in ShownUnder(list, f)}) = 1

\* C8: a non-archived project counts as overdue iff it is not COMPLETED and
\* has a parseable deadline earlier than now, as completed iff it is
\* COMPLETED, as active otherwise; so it is shown under exactly one of the
\* filters active, completed and overdue.
C8_StatusClassesPartition == StatusClassesFor(admin) /\ StatusClassesFor(member)

\* under 'overdue', an active project past its deadline is shown and a
\* completed one past its deadline is not
C8_Witness ==
    /\ projectStatusFilter = "overdue"
    /\ Len(admin) = 2
    /\ archivedProjectIds = <<>>
    /\ IsPastDeadline(admin[1].deadline) /\ admin[1].status = "ACTIVE"
    /\ IsPastDeadline(admin[2].deadline) /\ admin[2].status = "COMPLETED"
    /\ Ids(filteredAdminProjects) = {1}

\* the task passes the selected task-status filter
PassesTaskStatus(task) ==
    CASE taskStatusFilter = "all" -> TRUE
      [] taskStatusFilter = "overdue" ->
            /\ task.status # "COMPLETED"
            /\ task.deadline.kind = "iso"
            /\ task.deadline.t < filterNow
      [] OTHER -> task.status = taskStatusFilter

\* the project passes the selected project-status filter
PassesProjectStatus(project) ==
    CASE projectStatusFilter = "archived" -> Includes(archivedProjectIds, project.id)
      [] projectStatusFilter = "all" -> ~Includes(archivedProjectIds, project.id)
      [] OTHER -> /\ ~Includes(archivedProjectIds, project.id)
                  /\ StatusClass(project) = projectStatusFilter

PipelineOrderFor(list) ==
    LET shown == applyProjectFilters(list)
    IN  /\ Ids(shown) =
              {list[i].id : i \in {i \in DOMAIN list :
                  SurvivesTag(list[i]) /\ PassesProjectStatus(list[i])}}
        /\ Len(shown) = Cardinality(Ids(shown))
        /\ KeepsOrder(shown)
        /\ \A r \in DOMAIN shown : \A i \in DOMAIN list :
              shown[r].id = list[i].id =>
                 shown[r].tasks =
                    SelectSeq(list[i].tasks,
                              LAMBDA task :
                                 /\ tagFilter # <<>> => Carries(task, tagFilter)
                                 /\ PassesTaskStatus(task))

\* C9: the tag filter alone, on the unfiltered task list, decides whether a
\* project is dropped for having no matching task; the task-status filter
\* only narrows the tasks of a project that survived the tag and
\* project-status filters and never removes it, so such a project can be
\* shown with no task.
C9_TaskStatusNeverDropsProject == PipelineOrderFor(admin) /\ PipelineOrderFor(member)

\* Design and COMPLETED are selected: the project whose Design task is open is
\* shown with no task
C9_Witness ==
    /\ tagFilter = Tag_Design
    /\ taskStatusFilter = "COMPLETED"
    /\ Len(admin) >= 1
    /\ admin[1].tasks = TasksDesignAndQA(1)
    /\ Len(filteredAdminProjects) >= 1
    /\ filteredAdminProjects[1].id = 1
    /\ filteredAdminProjects[1].tasks = <<>>

-----------------------------------------------------------------------------
(* Claims about the archive store, checked under SpecStore *)

\* C10: for every list ids of positive integers, saveArchivedProjectIds(ids)
\* followed by loadArchivedProjectIds() returns the same elements in the same
\* order; when the entry is absent, is no valid JSON or is JSON that is no
\* array, loadArchivedProjectIds returns the empty list and does not throw.
C10_ArchiveRoundTrip ==
    loadResult.called =>
        /\ ~loadResult.threw
        /\ \A ids \in IdLists :
              archiveStorage = SavedEntry(ids) => loadResult.ids = ids
        /\ archiveStorage \in {NoEntry} \cup NotJsonEntries \cup NotArrayEntries =>
              loadResult.ids = <<>>

\* [5, 9] was saved and loaded back
C10_Witness ==
    /\ archiveStorage = SavedEntry(<<5, 9>>)
    /\ loadResult = Returned(<<5, 9>>)

\* the stored elements that are numbers greater than zero, in stored order
StoredPositiveNumbers(items) ==
    LET kept == SelectSeq(items, LAMBDA val : val.t = "num" /\ val.n > 0)
    IN  [i \in DOMAIN kept |-> kept[i].n]

\* C11: whatever JSON array is stored under the archive key, the list that
\* loadArchivedProjectIds returns holds exactly the stored elements that are
\* positive integers: elements that are strings, booleans, null, nested arrays
\* or objects, and numbers that are zero or negative, are dropped.
C11_NonNumbersDropped ==
    (/\ loadResult.called
     /\ archiveStorage.present
     /\ JSONParse(archiveStorage.text).ok
     /\ JSONParse(archiveStorage.text).val.t = "arr")
        => loadResult.ids = StoredPositiveNumbers(JSONParse(archiveStorage.text).val.items)

-----------------------------------------------------------------------------
(* Claims about the dashboard's task and project transitions, checked under
   SpecBoard *)

\* the task with the given id in a list of projects
TaskIn(projects, taskId) ==
    LET slot == CHOOSE x \in TaskSlots(projects) :
                    projects[x[1]].tasks[x[2]].id = taskId
    IN  projects[slot[1]].tasks[slot[2]]

\* the handler was invoked in this step
Invoked(handler) ==
    /\ Len(calls') = Len(calls) + 1
    /\ calls'[Len(calls')].handler = handler

\* the task is assigned to the signed-in user and is not submitted or completed
SubmittableByUser(task) ==
    /\ user # NoUser
    /\ task.assignedTo = user
    /\ task.status \notin {"SUBMITTED", "COMPLETED"}

\* C12: the submit button is on the page only for a task that is assigned to
\* the current user and is neither SUBMITTED nor COMPLETED, and only for such
\* a task does handleSubmitTask issue its request.
C12_SubmitOnlyByAssigneeOfOpenTask ==
    /\ [](\A b \in TaskButtons :
            b.button = "submit" => SubmittableByUser(TaskIn(admin \o member, b.taskId)))
    /\ [][Invoked("handleSubmitTask") =>
            SubmittableByUser(TaskIn(admin \o member, calls'[Len(calls')].id))]_vars

\* a submit request for the user's own open task is in flight
C12_Witness ==
    \E i \in DOMAIN calls :
        /\ calls[i].handler = "handleSubmitTask"
        /\ calls[i].pc = "action"
        /\ calls[i].from = "DECLINED"

C14_ReopenedTaskSubmittable ==
    [][\A i \in DOMAIN calls :
          (/\ calls[i].handler = "handleReopenTask"
           /\ calls[i].from = "SUBMITTED"
           /\ calls[i].pc = "load"
           /\ calls'[i].pc = "done"
           /\ calls'[i].reload = "ok")
             => LET task == TaskIn(admin' \o member', calls[i].id)
                IN  task.assignedTo # NoUser =>
                        "submit" \in renderMemberTaskActions(task, task.assignedTo)]_vars

\* a SUBMITTED task of a colleague was reopened and came back DECLINED
C14_Witness ==
    \E i \in DOMAIN calls :
        /\ calls[i].handler = "handleReopenTask"
        /\ calls[i].from = "SUBMITTED"
        /\ calls[i].pc = "done"
        /\ calls[i].reload = "ok"
        /\ TaskIn(admin \o member, calls[i].id).status = "DECLINED"
        /\ TaskIn(admin \o member, calls[i].id).assignedTo = Colleague

\* the admin buttons the claim gives a task status
AdminButtonsFor(status) ==
    {b \in {"approve", "complete", "reopen"} :
        \/ b = "reopen" /\ status \in {"SUBMITTED", "COMPLETED"}
        \/ b = "approve" /\ status = "SUBMITTED"
        \/ b = "complete" /\ status \in {"NEW", "IN_PROGRESS", "HELP_REQUESTED", "DECLINED"}}

\* C15: approve, complete and reopen are on the page only under projects of
\* the admin list; there a task has reopen exactly when it is SUBMITTED or
\* COMPLETED, approve exactly when it is SUBMITTED and complete exactly when
\* it is in any other status.
C15_AdminButtonsByStatus ==
    Rendered =>
        /\ \A b \in TaskButtons :
              b.button \in {"approve", "complete", "reopen"} =>
                  /\ b.showDelete
                  /\ \E a \in DOMAIN admin : admin[a].id = b.projectId
        /\ \A slot \in TaskSlots(filteredAdminProjects) :
              LET task == filteredAdminProjects[slot[1]].tasks[slot[2]]
              IN  {b.button : b \in {x \in TaskButtons : x.showDelete /\ x.taskId = task.id}}
                      = AdminButtonsFor(task.status)

\* after a submit and a re-fetch the admin task shows approve and reopen, while
\* the member list shows a completed task without any button
C15_Witness ==
    /\ Rendered
    /\ \E i \in DOMAIN calls : calls[i].pc = "done" /\ calls[i].reload = "ok"
    /\ \E b \in TaskButtons : b.button = "approve" /\ b.taskId = 11
    /\ \E b \in TaskButtons : b.button = "reopen" /\ b.taskId = 11
    /\ member[1].tasks[1].status = "COMPLETED"

\* the notices the handlers set after a success
SuccessNotices ==
    {Msg("dashboard.submitSuccess", 0), Msg("dashboard.approveSuccess", 0),
     Msg("dashboard.completeSuccess", 0), Msg("dashboard.reopenSuccess", 0),
     Msg("dashboard.projectCompleteSuccess", 0), Msg("dashboard.projectReopenSuccess", 0)}

\* C18: a task transition or project status change first sends its request
\* and no re-fetch; it issues its re-fetch in the step in which that request
\* succeeds and at no other time; a success notice appears only in a step in
\* which a re-fetch settles; and a handler whose request failed has issued
\* no re-fetch.
C18_CommitThenRefetchThenNotice ==
    /\ [][/\ Len(calls') > Len(calls) =>
                /\ calls'[Len(calls')].pc = "action"
                /\ calls'[Len(calls')].fetches = 0
          /\ \A i \in DOMAIN calls :
                calls'[i].fetches # calls[i].fetches =>
                    /\ calls[i].pc = "action"
                    /\ calls[i].fetches = 0
                    /\ calls'[i].outcome = "ok"
          /\ (notice' # notice /\ notice' \in SuccessNotices) =>
                \E i \in DOMAIN calls :
                    /\ calls[i].pc = "load"
                    /\ calls'[i].pc = "done"
                    /\ calls[i].outcome = "ok"
                    /\ notice' = calls[i].successKey]_vars
    /\ [](\A i \in DOMAIN calls : calls[i].outcome = "failed" => calls[i].fetches = 0)

\* one handler has run through request, re-fetch and notice, another one has
\* failed without a re-fetch
C18_Witness ==
    /\ \E i \in DOMAIN calls :
          /\ calls[i].pc = "done"
          /\ calls[i].outcome = "ok"
          /\ calls[i].fetches = 1
          /\ notice = calls[i].successKey
    /\ \E j \in DOMAIN calls :
          /\ calls[j].handler = "handleProjectStatusChange"
          /\ calls[j].outcome = "failed"
          /\ calls[j].pc = "done"

\* the transition handlers of a task that have not finished
UnfinishedTransitions(taskId) ==
    {i \in DOMAIN calls : /\ calls[i].handler \in TaskHandlers
                          /\ calls[i].id = taskId
                          /\ calls[i].pc # "done"}

\* C19: no task has two transition handlers that have not finished, and while
\* a task has one, every action button of that task on the page is disabled.
C19_OneTransitionPerTask ==
    \A taskId \in AllTaskIds :
        /\ Cardinality(UnfinishedTransitions(taskId)) <= 1
        /\ UnfinishedTransitions(taskId) # {} =>
              \A b \in TaskButtons : b.taskId = taskId => b.disabled

\* both tasks have a request in flight and the page shows their buttons
\* disabled
C19_Witness ==
    /\ \A i \in DOMAIN calls : calls[i].pc = "action"
    /\ {calls[i].id : i \in DOMAIN calls} = {11, 21}
    /\ \E b \in TaskButtons : b.taskId = 11 /\ b.disabled
    /\ \E b \in TaskButtons : b.taskId = 21 /\ b.disabled

-----------------------------------------------------------------------------
(* Claims about deleting projects, checked under SpecDelete *)

\* the delete requests of a project that are in flight
DeletesInFlight(projectId) ==
    {i \in DOMAIN calls : /\ calls[i].handler = "handleDelete"
                          /\ calls[i].id = projectId
                          /\ calls[i].pc = "action"}

\* C20: no project has two delete requests in flight, and while a project has
\* one, its delete and confirm controls on the page are disabled, whatever the
\* user does with the other projects in the meantime.
C20_OneDeletePerProject ==
    \A projectId \in ProjectIds :
        /\ Cardinality(DeletesInFlight(projectId)) <= 1
        /\ DeletesInFlight(projectId) # {} =>
              \A c \in DeleteControls :
                  (c.projectId = projectId /\ c.control \in {"delete", "confirm"})
                      => c.disabled

-----------------------------------------------------------------------------
(* Claims about assigning to colleagues, checked under SpecAssign *)

\* the colleagues that are members of the list of the page's state and have
\* registered
RegisteredMembersOf(listId) ==
    UNION {{lists[l].members[m].colleagueId :
               m \in {x \in DOMAIN lists[l].members :
                         lists[l].members[x].contact # NoUser}} :
           l \in {y \in DOMAIN lists : lists[y].id = listId}}

\* the colleague cards of the participants page whose colleague has no contact
UnregisteredCards ==
    {colleagues[c].id : c \in {x \in DOMAIN colleagues :
                                  colleagues[x].contact = NoUser}}

\* this step calls api.assignColleagueToTask from the dashboard
DashboardAssignIssued ==
    /\ Len(calls') > Len(calls)
    /\ calls'[Len(calls')].handler = "handleAssignFromList"

\* this step calls api.assignColleagueToProject or api.assignColleagueToTask
\* from the participants page
ParticipantsAssignIssued ==
    /\ Len(participantCalls') > Len(participantCalls)
    /\ participantCalls'[Len(participantCalls')].handler
           \in {"handleAssignProject", "handleAssignTask"}

\* C16: no assign request is issued for a colleague whose contact is null. On
\* the dashboard the persons a task's select offers are registered members of
\* the list selected for the task, and the request names one of them; on the
\* participants page every assignment control of an unregistered colleague is
\* disabled, and no request is issued from such a card.
C16_NoAssignForUnregistered ==
    /\ [](/\ \A c \in AssignControls :
                c.userOptions \subseteq RegisteredMembersOf(taskListSelections[c.taskId])
          /\ \A c \in ParticipantControls :
                c.colleagueId \in UnregisteredCards => c.disabled)
    /\ [][/\ DashboardAssignIssued =>
                calls'[Len(calls')].request.id \in
                    RegisteredMembersOf(taskListSelections[calls'[Len(calls')].id])
          /\ ParticipantsAssignIssued =>
                participantCalls'[Len(participantCalls')].colleagueId
                    \notin UnregisteredCards]_vars

\* the dashboard has assigned a task to the registered member of a list that
\* also has a member without contact
C16_Witness ==
    /\ \E i \in DOMAIN calls :
          /\ calls[i].handler = "handleAssignFromList"
          /\ calls[i].outcome = "ok"
          /\ calls[i].pc = "done"
          /\ \E l \in DOMAIN lists :
                /\ lists[l].id = calls[i].listId
                /\ \E m \in DOMAIN lists[l].members :
                      lists[l].members[m].contact = NoUser
    /\ \E a \in DOMAIN admin : \E k \in DOMAIN admin[a].tasks :
          admin[a].tasks[k].assignedTo # NoUser

-----------------------------------------------------------------------------
(* Claims about the session store, checked under SpecAuth *)

\* this step is the start-up effect of AuthProvider
StartUpStep == ~mounted /\ mounted'

\* the start-up step issues a request to /auth/me
MeIssued ==
    \E i \in DOMAIN authCalls' :
        /\ i \notin DOMAIN authCalls
        /\ authCalls'[i].endpoint = "/auth/me"

\* this step settles the request i to /auth/me
MeSettles(i) ==
    /\ i \in PendingCalls({"/auth/me"})
    /\ i \in DOMAIN authCalls'
    /\ authCalls'[i].pc # "pending"

\* C17: at the start-up of AuthProvider /auth/me is requested iff a token is
\* stored. Without a token the start-up sets loading to false, leaves the
\* user null and requests nothing. With a token loading stays true until a
\* request to /auth/me settles; that step sets loading to false and the user
\* to the returned identity, or to null when the request failed. No other
\* step requests /auth/me. ProtectedRoute redirects to /login only when
\* loading is false and the user is null.
C17_RevalidateIffToken ==
    /\ [][/\ StartUpStep => (MeIssued <=> token)
          /\ (StartUpStep /\ ~token) =>
                (~authLoading' /\ user' = NoUser /\ authCalls' = authCalls)
          /\ (StartUpStep /\ token) => authLoading'
          /\ MeIssued => StartUpStep
          /\ (authLoading /\ ~authLoading') =>
                \/ StartUpStep /\ ~token
                \/ \E i \in DOMAIN authCalls : MeSettles(i)
          /\ \A i \in DOMAIN authCalls :
                MeSettles(i) =>
                    /\ ~authLoading'
                    /\ user' = IF authCalls'[i].pc = "ok"
                                 THEN authCalls'[i].identity ELSE NoUser
          /\ (location'.by = "ProtectedRoute" /\ location # location') =>
                (~authLoading /\ user = NoUser)]_vars
    /\ [](ProtectedRoute = "navigate" <=> (~authLoading /\ user = NoUser))

\* a document started with a token: the request failed, the user is null and
\* ProtectedRoute has redirected to /login
C17_Witness ==
    /\ token
    /\ \E i \in DOMAIN authCalls :
          authCalls[i].endpoint = "/auth/me" /\ authCalls[i].pc = "failed"
    /\ PendingCalls({"/auth/me"}) = {}
    /\ ~authLoading
    /\ user = NoUser
    /\ location = [path |-> "/login", by |-> "ProtectedRoute"]

-----------------------------------------------------------------------------
(* ParticipantsPage, colleague lists: specification and claim *)

InitLists ==
    /\ ListsLoaded /\ CreateFormMounted /\ ClassifierIdle /\ DashboardIdle
    /\ StoreIdle /\ AuthSignedIn /\ BoardUnmounted
    /\ NoRefetches
    /\ HistoryUnmounted
    /\ CalendarUnmounted

NextLists ==
    /\ \/ SetListSelection
       \/ handleAddToList
       \/ AddToListResolved
       \/ AddToListRejected
    /\ UNCHANGED <<createVars, clsVars, dashVars, storeVars, authVars, boardVars,
                   colleagues, participantProjects, projectTasks,
                   participantsLoading, projectSelections, assigningProject,
                   taskProjectSelections, taskSelections, assigningTask,
                   participantCalls, directory, fetchVars, histVars, calVars>>

SpecLists == InitLists /\ [][NextLists]_vars

\* the add-to-list requests of a colleague that have not settled
AddToListInFlight(colleagueId) ==
    {i \in DOMAIN listCalls : /\ listCalls[i].colleagueId = colleagueId
                              /\ listCalls[i].pc = "await"}

\* C21: at most one add-to-list request per colleague is in flight, and the
\* colleague's add-to-list button is disabled while one is
C21_OneAddToListInFlight ==
    \A colleagueId \in ColleagueIds :
        /\ Cardinality(AddToListInFlight(colleagueId)) <= 1
        /\ AddToListInFlight(colleagueId) # {} =>
              \A c \in AddToListControls :
                  (c.colleagueId = colleagueId /\ c.control = "addToList")
                      => c.disabled

-----------------------------------------------------------------------------
(* DashboardPage: every mutation of the page, side by side *)

\* the page after its first loadDashboardData: the user administers project 1,
\* whose task is open and unassigned, is a member of project 2, whose task
\* is assigned to the user, and has one list with a registered colleague
MutationBoardLoaded ==
    /\ server = [admin |-> <<Project(1, "ACTIVE", Timestamp("null", 0),
                                     <<AssignedTask(11, "NEW", NoUser)>>)>>,
                 member |-> <<Project(2, "ACTIVE", Timestamp("null", 0),
                                      <<AssignedTask(21, "IN_PROGRESS", Me)>>)>>,
                 lists |-> <<ColleagueList(1, <<ListMember(5, UserOfColleague(5))>>)>>]
    /\ admin = server.admin
    /\ member = server.member
    /\ lists = server.lists
    /\ loading = FALSE
    /\ BoardAtDefaults
    /\ tagFilter = <<>>
    /\ projectStatusFilter = "all"
    /\ taskStatusFilter = "all"
    /\ archivedProjectIds = <<>>
    /\ filterNow = FilterClock
    /\ archiveStorage = SavedEntry(archivedProjectIds)
    /\ loadResult = NotLoaded

InitMutations ==
    /\ MutationBoardLoaded /\ AuthSignedIn /\ CreateFormMounted /\ ClassifierIdle
    /\ ParticipantsUnmounted /\ ListsUnmounted
    /\ NoRefetches
    /\ HistoryUnmounted
    /\ CalendarUnmounted

NextMutations ==
    /\ \/ handleSubmitTask
       \/ handleApproveTask
       \/ handleCompleteTask
       \/ handleReopenTask
       \/ handleProjectStatusChange
       \/ TaskActionResolved
       \/ ProjectStatusResolved
       \/ ActionRejected
       \/ ReloadResolved
       \/ ReloadRejected
       \/ requestDelete
       \/ cancelDelete
       \/ handleDelete
       \/ DeleteResolved
       \/ DeleteRejected
       \/ handleListChange
       \/ handleUserChange
       \/ handleAssignFromList
       \/ AssignResolved
       \/ AssignUnconfirmed
       \/ AssignRejected
       \/ AssignReloadResolved
       \/ AssignReloadRejected
       \/ NoticeTimeout
    /\ UNCHANGED <<createVars, clsVars, partVars, listVars, fetchVars, histVars, calVars>>

SpecMutations == InitMutations /\ [][NextMutations]_vars

\* the in-progress flag of a call's action is set
GateHeld(call) ==
    CASE call.handler \in TaskHandlers -> call.id \in taskUpdating
      [] call.handler = "handleProjectStatusChange" -> call.id \in projectStatusUpdating
      [] call.handler = "handleDelete" -> deleting = call.id
      [] call.handler = "handleAssignFromList" -> call.id \in assigningFromList

\* the step is the failure of the request of call i
RequestFails(i) ==
    /\ calls[i].pc = "action"
    /\ i \in DOMAIN calls'
    /\ calls'[i].outcome = "failed"

\* C22: when the request of a task transition, a project status change, a
\* project delete or a task assignment fails, the handler ends with a
\* non-empty error, the in-progress flag of its action reset, and the admin
\* and member lists as they were
C22_FailedMutationLeavesLists ==
    [][\A i \in DOMAIN calls :
          RequestFails(i) =>
              /\ calls'[i].pc = "done"
              /\ error' # NoMsg
              /\ ~GateHeld(calls[i])'
              /\ admin' = admin
              /\ member' = member]_vars

\* a task assignment and a project delete have both failed
C22_Witness ==
    /\ \E i \in DOMAIN calls : /\ calls[i].handler = "handleAssignFromList"
                               /\ calls[i].outcome = "failed"
    /\ \E i \in DOMAIN calls : /\ calls[i].handler = "handleDelete"
                               /\ calls[i].outcome = "failed"
    /\ error # NoMsg
    /\ deleting = 0
    /\ assigningFromList = {}
    /\ admin # <<>>

\* no handler of the page is between its first and its last step
AllSettled == \A i \in DOMAIN calls : calls[i].pc = "done"

\* C23: once the actions of the page have settled, the success notice and
\* the error message are not both set
C23_NoticeXorError ==
    AllSettled => ~(notice # NoMsg /\ error # NoMsg)

\* C24: once a handler whose request failed has finished and nothing else is
\* in progress, the project lists are rendered and the control of the failed
\* action is enabled again
C24_RetryAfterFailure ==
    \A i \in DOMAIN calls :
        (AllSettled /\ calls[i].outcome = "failed") =>
            /\ Rendered
            /\ ~GateHeld(calls[i])

-----------------------------------------------------------------------------
(* DashboardPage, overlapping re-fetches: specification and claim *)

InitRefetch ==
    /\ MutationBoardLoaded /\ AuthSignedIn /\ CreateFormMounted /\ ClassifierIdle
    /\ ParticipantsUnmounted /\ ListsUnmounted /\ NoRefetches
    /\ HistoryUnmounted
    /\ CalendarUnmounted

NextRefetch ==
    /\ \/ /\ \/ handleSubmitTask
             \/ handleApproveTask
             \/ handleCompleteTask
             \/ handleReopenTask
             \/ handleProjectStatusChange
             \/ ActionRejected
             \/ NoticeTimeout
          /\ UNCHANGED refetches
       \/ RefetchIssued
       \/ ReloadServed
       \/ ReloadDelivered
       \/ ReloadLost
    /\ UNCHANGED <<createVars, clsVars, partVars, listVars, histVars, calVars>>

SpecRefetch == InitRefetch /\ [][NextRefetch]_vars

\* C25: once no request of the page is in flight, the admin and member lists
\* on display are the answer of the most recently issued re-fetch, if that
\* answer arrived
C25_LatestRefetchDisplayed ==
    (/\ AllSettled
     /\ refetches # <<>>
     /\ refetches[Len(refetches)].state = "stored") =>
        /\ admin = refetches[Len(refetches)].response.admin
        /\ member = refetches[Len(refetches)].response.member

-----------------------------------------------------------------------------
(* AuthProvider: signed out until the next sign-in *)

\* the step is the answer to a pending api.login or api.register
SignInAnswered ==
    \E i \in PendingCalls({"/auth/login", "/auth/register"}) :
        /\ i \in DOMAIN authCalls'
        /\ authCalls'[i].pc = "ok"

\* C26: with no token stored and no user set, as logout leaves them, user
\* stays null and the token absent in every step except the answer to a
\* login or register; the answer to a refresh does not set user
C26_SignedOutUntilSignIn ==
    [][(~token /\ user = NoUser) =>
          \/ ~token' /\ user' = NoUser
          \/ SignInAnswered]_vars

-----------------------------------------------------------------------------
(* HistoryPage: specification and claims *)

InitHistory ==
    /\ HistoryLoaded /\ CreateFormMounted /\ ClassifierIdle /\ DashboardIdle
    /\ AuthSignedIn /\ BoardUnmounted /\ ParticipantsUnmounted /\ ListsUnmounted
    /\ NoRefetches
    /\ CalendarUnmounted

NextHistory ==
    /\ \/ loadData
       \/ LoadDataResolved
       \/ LoadDataRejected
       \/ RestoreLocal
       \/ RestoreServer
       \/ RestoreResolved
       \/ RestoreRejected
       \/ historyHandleDelete
       \/ HistoryDeleteResolved
       \/ HistoryDeleteRejected
       \/ HistoryNoticeTimeout
    /\ UNCHANGED <<createVars, clsVars, dashVars, authVars, boardVars, partVars,
                   listVars, fetchVars, calVars>>

SpecHistory == InitHistory /\ [][NextHistory]_vars

\* the ids a load of the stored entry returns
StoredArchivedIds == IdsOf(loadArchivedProjectIds(archiveStorage).ids)

\* C27: a project whose delete request succeeded while it was archived
\* locally is neither in the stored archived ids nor on display afterwards,
\* and a locally restored project is not in the stored archived ids again
C27_DeletedAndRestoredStayOut ==
    \A i \in DOMAIN historyCalls :
        LET call == historyCalls[i]
        IN  /\ (call.handler = "handleDelete" /\ call.outcome = "ok"
                   /\ call.id \in IdsOf(call.ids)) =>
                  /\ call.id \notin StoredArchivedIds
                  /\ call.id \notin IdsOf(combinedProjects)
            /\ (call.handler = "handleRestore" /\ call.pc = "local") =>
                  /\ call.id \notin StoredArchivedIds
                  /\ call.id \notin IdsOf(localArchivedIds)

-----------------------------------------------------------------------------
(* DashboardPage and HistoryPage: the notice timer and the error message *)

\* either page is open: the dashboard, or the history page
InitNotice ==
    /\ CreateFormMounted /\ ClassifierIdle /\ AuthSignedIn
    /\ ParticipantsUnmounted /\ ListsUnmounted /\ NoRefetches
    /\ \/ MutationBoardLoaded /\ HistoryUnmounted
       \/ HistoryLoaded /\ DashboardIdle /\ BoardUnmounted
    /\ CalendarUnmounted

NextNotice ==
    \/ /\ \/ handleSubmitTask
          \/ handleApproveTask
          \/ handleCompleteTask
          \/ handleReopenTask
          \/ handleProjectStatusChange
          \/ TaskActionResolved
          \/ ProjectStatusResolved
          \/ ActionRejected
          \/ ReloadResolved
          \/ ReloadRejected
          \/ requestDelete
          \/ cancelDelete
          \/ handleDelete
          \/ DeleteResolved
          \/ DeleteRejected
          \/ NoticeTimeout
       /\ UNCHANGED <<createVars, clsVars, partVars, listVars, fetchVars, histVars, calVars>>
    \/ /\ \/ loadData
          \/ LoadDataResolved
          \/ LoadDataRejected
          \/ RestoreLocal
          \/ RestoreServer
          \/ RestoreResolved
          \/ RestoreRejected
          \/ historyHandleDelete
          \/ HistoryDeleteResolved
          \/ HistoryDeleteRejected
          \/ HistoryNoticeTimeout
       /\ UNCHANGED <<createVars, clsVars, dashVars, authVars, boardVars, partVars,
                      listVars, fetchVars, calVars>>

\* the browser runs a timer that is due
DashboardTimerFires ==
    /\ NoticeTimeout
    /\ UNCHANGED <<createVars, clsVars, partVars, listVars, fetchVars, histVars,
                   calVars>>

HistoryTimerFires ==
    /\ HistoryNoticeTimeout
    /\ UNCHANGED <<createVars, clsVars, dashVars, authVars, boardVars, partVars,
                   listVars, fetchVars, calVars>>

SpecNotice ==
    /\ InitNotice
    /\ [][NextNotice]_vars
    /\ WF_vars(DashboardTimerFires)
    /\ WF_vars(HistoryTimerFires)

\* the step is the start of a handler of the dashboard or of loadDashboardData
DashboardWorkStarts ==
    \/ Len(calls') > Len(calls)
    \/ confirming' # confirming
    \/ \E i \in DOMAIN calls : calls[i].pc = "action" /\ calls'[i].pc = "load"

\* the step is the start of loadData of the history page
HistoryLoadStarts == ~historyLoading /\ historyLoading'

\* C28: on both pages a notice that was set is cleared by its timer unless
\* something clears it first, and an error message is cleared by the start
\* of an action or of a load only, never by a timer
C28_NoticeTimedErrorKept ==
    /\ (notice # NoMsg) ~> (notice = NoMsg)
    /\ (historyNotice # NoMsg) ~> (historyNotice = NoMsg)
    /\ [][(error # NoMsg /\ error' = NoMsg) => DashboardWorkStarts]_vars
    /\ [][(historyError # NoMsg /\ historyError' = NoMsg) => HistoryLoadStarts]_vars

\* on the history page the notice of a local restore has been cleared by its
\* timer while the error of a failed request is still shown
C28_Witness ==
    /\ \E i \in DOMAIN historyCalls : historyCalls[i].pc = "local"
    /\ historyNotice = NoMsg
    /\ historyError # NoMsg

-----------------------------------------------------------------------------
(* CalendarMePage: specification and claims *)

InitCalendar ==
    /\ CalendarMounted /\ CreateFormMounted /\ ClassifierIdle /\ DashboardIdle
    /\ AuthSignedIn /\ BoardUnmounted /\ ParticipantsUnmounted /\ ListsUnmounted
    /\ NoRefetches /\ HistoryUnmounted

NextCalendar ==
    /\ \/ fetchData
       \/ FetchResolved
       \/ FetchRejected
       \/ OtherTabSaves
       \/ OtherTabSetsLanguage
       \/ handleStorage
    /\ UNCHANGED <<createVars, clsVars, dashVars, authVars, boardVars, partVars,
                   listVars, fetchVars, histVars>>

SpecCalendar == InitCalendar /\ [][NextCalendar]_vars

\* the task events of a task id, over all days
TaskEventsOf(taskId) ==
    {k \in DOMAIN DayEvents : DayEvents[k].type = "task" /\ DayEvents[k].id = taskId}

\* C29: every task id has at most one task event in the map of the days,
\* also when the task is in the answer of my-calendar and in a project of
\* my-projects
C29_TaskShownOnce ==
    \A k \in DOMAIN DayEvents :
        DayEvents[k].type = "task" => Cardinality(TaskEventsOf(DayEvents[k].id)) = 1

\* task 11 is in both answers with a deadline inside the range, and has its
\* one event
C29_Witness ==
    /\ \E k \in DOMAIN calendarTasks :
          calendarTasks[k].id = 11 /\ HasEvent(calendarTasks[k].deadline)
    /\ \E p \in DOMAIN calendarProjects :
          \E k \in DOMAIN calendarProjects[p].tasks :
              /\ calendarProjects[p].tasks[k].id = 11
              /\ HasEvent(calendarProjects[p].tasks[k].deadline)
    /\ Cardinality(TaskEventsOf(11)) = 1

\* the ids of the archived projects in the entry of localStorage
ArchivedInStorage ==
    LET ids == loadArchivedProjectIds(archiveStorage).ids
    IN  {ids[k] : k \in DOMAIN ids}

\* the oldest storage event is delivered to the page
StorageEventDelivered == storageEvents # <<>> /\ storageEvents' = Tail(storageEvents)

\* no event of the map belongs to a project of the page's archived ids
ArchivedHidden == \A k \in DOMAIN DayEvents : DayEvents[k].projectId \notin archivedSet

\* every project of the answers that is not among the page's archived ids
\* has the event of its deadline and an event for each of its tasks, and so
\* has each of its tasks in the answer of my-calendar, where the deadline is
\* a date inside the range
OthersShown ==
    /\ \A p \in DOMAIN allProjects :
          LET project == allProjects[p]
          IN  project.id \notin archivedSet =>
                  /\ HasEvent(project.deadline) =>
                         \E k \in DOMAIN DayEvents : DayEvents[k] = ProjectEvent(project)
                  /\ \A j \in DOMAIN project.tasks :
                         HasEvent(project.tasks[j].deadline) =>
                             TaskEventsOf(project.tasks[j].id) # {}
    /\ \A j \in DOMAIN allTasks :
          (allTasks[j].project.id \notin archivedSet /\ HasEvent(allTasks[j].deadline))
              => TaskEventsOf(allTasks[j].id) # {}

\* C30: when a storage event for the archived-ids entry is delivered, the
\* page's archived ids become what loadArchivedProjectIds returns for the
\* entry, and a storage event for another key leaves them as they were; in
\* every state no event of a project among the page's archived ids is in
\* the calendar and the events of every other project are there, so the
\* events of a newly archived project disappear and those of a restored
\* project reappear with the delivery
C30_StorageEventReloadsArchive ==
    /\ [][StorageEventDelivered =>
             IF Head(storageEvents) = ARCHIVE_STORAGE_KEY
             THEN calendarArchivedIds' = loadArchivedProjectIds(archiveStorage').ids
             ELSE calendarArchivedIds' = calendarArchivedIds]_vars
    /\ [](ArchivedHidden /\ OthersShown)

\* after the delivery: project 1 was archived and project 2 restored in
\* another tab, the answers hold both; the events of project 1 are gone, the
\* task of project 2 is shown
C30_Witness ==
    /\ storageEvents = <<>>
    /\ calendarArchivedIds = <<1>>
    /\ ArchivedInStorage = {1}
    /\ ~calendarLoading
    /\ \E p \in DOMAIN allProjects : allProjects[p].id = 1
    /\ \E j \in DOMAIN allTasks : allTasks[j].project.id = 1
    /\ \A k \in DOMAIN DayEvents : DayEvents[k].projectId # 1
    /\ TaskEventsOf(21) # {}

=============================================================================
